---- MODULE Spec2Model ----
(***************************************************************************)
(* Frame orchestration and GPU synchronisation of the Vulkan base crate:   *)
(* ProcPipeline (launch, main_loop, render_frame) and SyncResource from    *)
(* base/src/workflow/loops.rs, the fence/semaphore builders from           *)
(* base/src/ci/sync.rs and the example application's render callback from  *)
(* examples/src/pipelines/example.rs.                                      *)
(*                                                                         *)
(* The control thread is modelled statement by statement (pc); the GPU is  *)
(* a second, asynchronous process that retires submitted batches.          *)
(*                                                                         *)
(* The staging-to-device upload, MeshAsset::allocate from                  *)
(* base/src/gltf/meshes/asset.rs, is a second specification (UploadSpec)   *)
(* over its own position (upc) and device objects.                         *)
(***************************************************************************)
EXTENDS Integers, Sequences, FiniteSets, TLC

\* ------------------------------------------------------------------ bounds
\* Largest number of swapchain images (frames in flight) explored.
MaxFrames == 3
\* Number of loop iterations after which the input source asks to terminate.
MaxIters == 3
\* Largest number of bytes of vertex data in an uploaded asset.
MaxVertexBytes == 2
\* Largest number of bytes of index data in an uploaded asset.
MaxIndexBytes == 2

\* Largest number of bytes in a shader file.
MaxFileBytes == 3

\* Largest number of reads of a shader file that fail during one load.
MaxReadErrors == 1

\* Largest number of operations on a stand-alone SyncResource, its
\* construction included.
MaxPoolOps == 4

\* ------------------------------------------------------------------- state
VARIABLES
    pc,                  \* position of the control thread
    ret,                 \* where response_feedback! continues after a recreation
    result,              \* what launch returned: "none" (running), "Ok", "Err"
    swapchain,           \* vulkan.swapchain: [images], images = frame_in_flight()
    syncs,               \* SyncResource: [frame_count, await_present, sync_fences]
    frame_counter,       \* FrameCounter: [current, count]
    fence_state,         \* live fence handle -> signaled?
    sem_state,           \* live semaphore handle -> signal operations not yet waited on
    next_handle,         \* next object handle the device hands out
    pending,             \* batches submitted to the graphics queue and not yet retired
    submitted,           \* fences that were ever passed to a queue submission
    app_commands,        \* number of command buffers the application has recorded
    fence_ready,         \* render_frame local: the fence of the current slot
    acquire_image_index, \* render_frame local: the image index just acquired
    await_render,        \* render_frame local: the semaphore the callback returned (0 = none)
    present_args,        \* what swapchain.present was last called with: [wait, image_index]
    log,                 \* the calls of the current loop iteration (or of the upload), in order
    iters,               \* loop iterations started
    completed,           \* frames whose present returned Ok
    aborted,             \* frames whose render_frame returned SwapchainRecreate
    cancel               \* a close request that arrived during a frame: "none", "mid_render"

\* The upload pipeline (MeshAsset::allocate) runs once per asset at load time,
\* independent of the frame loop; it has its own position and device objects.
VARIABLES
    upc,                 \* position of the control thread inside MeshAsset::allocate
    asset,               \* the source: [vertex, index] byte sequences (index <<>> = no indices)
    phy,                 \* device.phy memory types: sequence of property-flag sets
    device_next,         \* next object handle the device hands out to the upload
    buffers,             \* vk::Buffer handle -> [size, usage, type_bits, memory, offset, destroyed]
    memories,            \* vk::DeviceMemory handle -> [size, request, bytes, mapped, destroyed]
    cmd_pools,           \* vk::CommandPool handle -> [destroyed]
    copy_fences,         \* vk::Fence handle -> [signaled, destroyed]
    staging_block,       \* allocate local: the staging MeshAssetBlock
    mesh_block,          \* allocate local: the destination MeshAssetBlock
    command_pool,        \* copy_staging2mesh local (0 before it exists)
    copy_command,        \* the copy regions recorded into the one-shot command buffer
    copy_fence,          \* copy_staging2mesh local `fence` (0 before it exists)
    transfer_queue,      \* submissions on the transfer queue that have not executed yet
    upload_result,       \* what allocate returned: [status, block]
    readback             \* bytes read back from the destination buffers after Ok

loop_vars == <<pc, ret, result, swapchain, syncs, frame_counter, fence_state, sem_state,
               next_handle, pending, submitted, app_commands, fence_ready,
               acquire_image_index, await_render, present_args, log, iters,
               completed, aborted, cancel>>

\* Every loop variable but the call log, which the upload shares.
loop_rest_vars == <<pc, ret, result, swapchain, syncs, frame_counter, fence_state,
                    sem_state, next_handle, pending, submitted, app_commands,
                    fence_ready, acquire_image_index, await_render, present_args,
                    iters, completed, aborted, cancel>>

upload_vars == <<upc, asset, phy, device_next, buffers, memories, cmd_pools,
                 copy_fences, staging_block, mesh_block, command_pool, copy_command,
                 copy_fence, transfer_queue, upload_result, readback>>

\* Loading a SPIR-V shader file (ci/shader.rs: load_spriv_bytes) is a third,
\* independent operation.
VARIABLES
    shader_pc,           \* position inside load_spriv_bytes
    shader_file,         \* the file at `path`: [exists, content]
    shader_pos,          \* the file position of the open file
    shader_errors,       \* reads of the file that returned an io::Error
    shader_bytes,        \* the bytes collected so far
    shader_result        \* what load_spriv_bytes returned: [status, bytes]

\* A SyncResource used on its own (SyncResource::new, reset, discard).
VARIABLES
    pool,                \* self: [frame_count, await_present, sync_fences]
    pool_fence_state,    \* live fence handle -> signaled?
    pool_sem_state,      \* live semaphore handle -> signal operations not yet waited on
    pool_next_handle,    \* next object handle the device hands out
    destroyed,           \* handle -> number of times device.discard was called on it
    pool_log             \* the operations on the pool, in order

shader_vars == <<shader_pc, shader_file, shader_pos, shader_errors, shader_bytes,
                 shader_result>>

pool_vars == <<pool, pool_fence_state, pool_sem_state, pool_next_handle, destroyed,
               pool_log>>

\* What neither the frame loop nor the upload touches.
aux_vars == <<shader_vars, pool_vars>>

vars == <<loop_vars, upload_vars, shader_vars, pool_vars>>

gpu_vars   == <<fence_state, sem_state, next_handle, pending, submitted>>
local_vars == <<fence_ready, acquire_image_index, await_render, present_args>>
count_vars == <<iters, completed, aborted>>
env_vars   == <<cancel>>

\* ------------------------------------------------------------------- types
FrameAction == {"Rendering", "SwapchainRecreate", "Terminal"}
SwapchainSyncError == {"SurfaceOutDate", "SubOptimal", "TimeOut", "Unknown"}

\* One entry of the call log: the operation, the handle or index it was given
\* (0 when it has none) and its outcome.
Ev(op, arg, out) == [op |-> op, arg |-> arg, out |-> out]

Last(s) == s[Len(s)]

\* ----------------------------------------------------- ci/sync.rs builders
\* SemaphoreCI::new: the create info of a plain binary semaphore.
SemaphoreCI_new == [flags |-> "EMPTY"]

\* SemaphoreCI::build: a new semaphore has no signal operation outstanding.
SemaphoreCI_build(ci) == 0

\* A plausible slip in FenceCI::new: the is_signed argument is dropped.
FenceCI_new_unsigned(is_signed) == [flags |-> "EMPTY"]

\* FenceCI::new: the SIGNALED flag is set exactly when is_signed.
FenceCI_new(is_signed) == [flags |-> IF is_signed THEN "SIGNALED" ELSE "EMPTY"]

\* FenceCI::build: create_fence makes the fence signaled iff the flag is set.
FenceCI_build(ci) == (ci.flags = "SIGNALED")

\* ------------------------------------------------------------ FrameCounter
FrameCounter_new(frame_in_flight) == [current |-> 0, count |-> frame_in_flight]

current_frame(fc) == fc.current

next_frame(fc) == [fc EXCEPT !.current = (fc.current + 1) % fc.count]

\* ------------------------------------------------------------ SyncResource
\* SyncResource::new with the device handing out handles base, base+1, ...:
\* one semaphore first, then frame_count fences built from FenceCI::new(true).
SyncResource_new(base, frame_count) ==
    LET await_present == base
        fence_ci      == FenceCI_new(TRUE)
        sync_fences   == [i \in 1..frame_count |-> base + i]
    IN  [ syncs  |-> [frame_count   |-> frame_count,
                      await_present |-> await_present,
                      sync_fences   |-> sync_fences],
          sems   |-> [h \in {await_present} |-> SemaphoreCI_build(SemaphoreCI_new)],
          fences |-> [h \in {base + i : i \in 1..frame_count} |-> FenceCI_build(fence_ci)],
          next   |-> base + frame_count + 1 ]

\* The handles of the pool's fences.
PoolFences == {syncs.sync_fences[i] : i \in DOMAIN syncs.sync_fences}

\* f without the keys in S.
Without(f, S) == [h \in DOMAIN f \ S |-> f[h]]

\* swapchain.present has not been called in this iteration.
NoPresent == [wait |-> <<>>, image_index |-> 0]

\* VulkanExample::backend_res: the application's own semaphore, created with
\* the application before the pool exists; its handle is none of the pool's.
backend_res == [await_rendering |-> MaxFrames + 2]

\* -------------------------------------------------------------------- Init
\* The Vulkan context and the application exist (VulkanExample::new recorded
\* one command buffer per swapchain image); ProcPipeline::new has not run.
LoopInit ==
    /\ pc = "new"
    /\ ret = "none"
    /\ result = "none"
    /\ swapchain \in {[images |-> n] : n \in 1..MaxFrames}
    /\ syncs = [frame_count |-> 0, await_present |-> 0, sync_fences |-> <<>>]
    /\ frame_counter = [current |-> 0, count |-> 0]
    /\ fence_state = <<>>
    /\ sem_state = <<>>
    /\ next_handle = 1
    /\ pending = {}
    /\ submitted = {}
    /\ app_commands = swapchain.images
    /\ fence_ready = 0
    /\ acquire_image_index = 0
    /\ await_render = 0
    /\ present_args = NoPresent
    /\ log = <<>>
    /\ iters = 0
    /\ completed = 0
    /\ aborted = 0
    /\ cancel = "none"

\* No MeshAssetBlock: what the locals of allocate hold before they are assigned.
NoBlock == [vertex |-> [buffer |-> 0, size |-> 0], index |-> <<>>, memory |-> 0]

\* No upload is in progress and the device holds no upload object.
UploadIdle ==
    /\ upc = "idle"
    /\ asset = [vertex |-> <<>>, index |-> <<>>]
    /\ phy = <<>>
    /\ device_next = 1
    /\ buffers = <<>>
    /\ memories = <<>>
    /\ cmd_pools = <<>>
    /\ copy_fences = <<>>
    /\ staging_block = NoBlock
    /\ mesh_block = NoBlock
    /\ command_pool = 0
    /\ copy_command = <<>>
    /\ copy_fence = 0
    /\ transfer_queue = {}
    /\ upload_result = [status |-> "none", block |-> NoBlock]
    /\ readback = [vertex |-> <<>>, index |-> <<>>]

\* No shader file is being loaded.
ShaderIdle ==
    /\ shader_pc = "idle"
    /\ shader_file = [exists |-> FALSE, content |-> <<>>]
    /\ shader_pos = 0
    /\ shader_errors = 0
    /\ shader_bytes = <<>>
    /\ shader_result = [status |-> "none", bytes |-> <<>>]

\* No stand-alone SyncResource exists.
PoolIdle ==
    /\ pool = [frame_count |-> 0, await_present |-> 0, sync_fences |-> <<>>]
    /\ pool_fence_state = <<>>
    /\ pool_sem_state = <<>>
    /\ pool_next_handle = 1
    /\ destroyed = <<>>
    /\ pool_log = <<>>

Init == LoopInit /\ UploadIdle /\ ShaderIdle /\ PoolIdle

\* ------------------------------------------------------------- ProcPipeline
\* ProcPipeline::new: the pool and the frame counter are sized by
\* swapchain.frame_in_flight().
ProcPipeline_new ==
    /\ pc = "new"
    /\ LET frame_in_flight == swapchain.images
           made == SyncResource_new(next_handle, frame_in_flight)
       IN  /\ syncs' = made.syncs
           /\ sem_state' = made.sems
           /\ fence_state' = made.fences
           /\ next_handle' = made.next
           /\ frame_counter' = FrameCounter_new(frame_in_flight)
    /\ pc' = "ln_init"
    /\ UNCHANGED <<ret, result, swapchain, pending, submitted, app_commands,
                   local_vars, log, count_vars>>
    /\ UNCHANGED <<env_vars, upload_vars, aux_vars>>

\* A plausible slip: the error is dropped (`.ok()`, `let _ =`) and the
\* iteration carries on to its bookkeeping.
Fatal_swallowed(events) ==
    /\ pc' = "lp_tick"
    /\ result' = result
    /\ log' = log \o events

\* A fatal error: `?` carries it out of main_loop and launch at once.
Fatal(events) ==
    /\ pc' = "done"
    /\ result' = "Err"
    /\ log' = log \o events

\* launch: app.init(&device)?
AppInit ==
    /\ pc = "ln_init"
    /\ \/ /\ pc' = "lp_poll"
          /\ log' = Append(log, Ev("init", 0, "Ok"))
          /\ UNCHANGED result
       \/ Fatal(<<Ev("init", 0, "Err")>>)
    /\ UNCHANGED <<ret, swapchain, syncs, frame_counter, gpu_vars, app_commands,
                   local_vars, count_vars>>
    /\ UNCHANGED <<env_vars, upload_vars, aux_vars>>

\* A plausible slip: `continue 'loop_marker` after the recreation, which skips
\* the rest of the iteration.
response_feedback_continue(action, cont) ==
    CASE action = "Rendering"         -> pc' = cont /\ UNCHANGED ret
      [] action = "SwapchainRecreate" -> pc' = "rc_wait_idle" /\ ret' = "lp_poll"
      [] action = "Terminal"          -> pc' = "ln_wait_idle" /\ UNCHANGED ret

\* A plausible slip: SwapchainRecreate sharing the arm of Terminal.
response_feedback_break(action, cont) ==
    CASE action = "Rendering"         -> pc' = cont /\ UNCHANGED ret
      [] action = "SwapchainRecreate" -> pc' = "ln_wait_idle" /\ UNCHANGED ret
      [] action = "Terminal"          -> pc' = "ln_wait_idle" /\ UNCHANGED ret

\* A plausible slip: the Terminal arm left empty, like the Rendering arm.
response_feedback_terminal_ignored(action, cont) ==
    CASE action = "Rendering"         -> pc' = cont /\ UNCHANGED ret
      [] action = "SwapchainRecreate" -> pc' = "rc_wait_idle" /\ ret' = cont
      [] action = "Terminal"          -> pc' = cont /\ UNCHANGED ret

\* response_feedback!($action), with the code after the macro at `cont`:
\* Rendering falls through, SwapchainRecreate runs the recreation and then
\* falls through, Terminal breaks out of the loop.
response_feedback(action, cont) ==
    CASE action = "Rendering"         -> pc' = cont /\ UNCHANGED ret
      [] action = "SwapchainRecreate" -> pc' = "rc_wait_idle" /\ ret' = cont
      [] action = "Terminal"          -> pc' = "ln_wait_idle" /\ UNCHANGED ret

\* The window receives its close request while a frame is being rendered.
\* (A request that arrives between two frames is the Terminal that
\* current_action may report at any polling.)
CloseRequest ==
    /\ cancel = "none"
    /\ pc \in {"rf_wait", "rf_acquire", "rf_reset", "rf_render", "rf_present"}
    /\ cancel' = "mid_render"
    /\ UNCHANGED <<pc, ret, result, swapchain, syncs, frame_counter, gpu_vars,
                   app_commands, local_vars, log, count_vars>>
    /\ UNCHANGED <<upload_vars, aux_vars>>

\* InputController::current_action: Terminal once a close request has been
\* recorded, otherwise any of the three actions (a resize, or a close request
\* that has just arrived).  After MaxIters iterations the close request is
\* taken to have arrived.
current_action ==
    IF cancel # "none" \/ iters >= MaxIters THEN {"Terminal"} ELSE FrameAction

\* main_loop: poll_events, current_action, response_feedback!(window_feedback).
PollEvents ==
    /\ pc = "lp_poll"
    /\ \E window_feedback \in current_action :
          /\ log' = <<Ev("poll_events", 0, window_feedback)>>
          /\ response_feedback(window_feedback, "lp_input")
    /\ iters' = iters + 1
    /\ UNCHANGED <<result, swapchain, syncs, frame_counter, gpu_vars, app_commands,
                   local_vars, completed, aborted>>
    /\ UNCHANGED <<env_vars, upload_vars, aux_vars>>

\* main_loop: app.receive_input, response_feedback!(input_feedback).
ReceiveInput ==
    /\ pc = "lp_input"
    /\ \E input_feedback \in FrameAction :
          /\ log' = Append(log, Ev("receive_input", 0, input_feedback))
          /\ response_feedback(input_feedback, "rf_wait")
    /\ UNCHANGED <<result, swapchain, syncs, frame_counter, gpu_vars, app_commands,
                   local_vars, count_vars>>
    /\ UNCHANGED <<env_vars, upload_vars, aux_vars>>

\* A plausible slip: a zero timeout, so that the wait returns at once.
wait_for_fences_no_block(fence) == TRUE

\* wait_for_fences(&[fence], true, Infinite) returns Ok only once the fence is
\* signaled.
wait_for_fences(fence) == fence_state[fence]

\* render_frame: take the fence of the current slot and block on it.
RenderWaitFence ==
    /\ pc = "rf_wait"
    /\ LET fence == syncs.sync_fences[current_frame(frame_counter) + 1]
       IN  /\ fence_ready' = fence
           /\ \/ /\ wait_for_fences(fence)
                 /\ log' = Append(log, Ev("wait_for_fences", fence, "Ok"))
                 /\ pc' = "rf_acquire"
                 /\ UNCHANGED result
              \/ Fatal(<<Ev("wait_for_fences", fence, "Err"), Ev("render_frame", 0, "Err")>>)
    /\ UNCHANGED <<ret, swapchain, syncs, frame_counter, gpu_vars, app_commands,
                   acquire_image_index, await_render, present_args, count_vars>>
    /\ UNCHANGED <<env_vars, upload_vars, aux_vars>>

\* What render_frame returns for an error of next_image.
next_image_error(e) ==
    IF e \in {"SurfaceOutDate", "SubOptimal"} THEN "SwapchainRecreate" ELSE "Err"

\* vkAcquireNextImageKHR queues a signal of the semaphore whenever it hands out
\* an image; VK_SUBOPTIMAL_KHR is a success code and hands one out.
next_image_signals(outcome) == outcome \in {"Ok", "SubOptimal"}

\* The semaphore state after `n` more signal operations on `sem`.
SemAdd(sem, n) ==
    IF sem \in DOMAIN sem_state THEN [sem_state EXCEPT ![sem] = @ + n] ELSE sem_state

\* A plausible slip: the fence reset hoisted above the acquisition, so that it
\* also runs when no image is acquired.
RenderAcquire_reset_first ==
    /\ pc = "rf_acquire"
    /\ fence_state' = [fence_state EXCEPT ![fence_ready] = FALSE]
    /\ \/ \E image_index \in 0 .. (swapchain.images - 1) :
             /\ acquire_image_index' = image_index
             /\ sem_state' = SemAdd(syncs.await_present, 1)
             /\ log' = log \o <<Ev("reset_fences", fence_ready, "Ok"),
                                 Ev("next_image", image_index, "Ok")>>
             /\ pc' = "rf_reset"
             /\ UNCHANGED <<ret, result, aborted>>
       \/ \E e \in {"SurfaceOutDate", "SubOptimal"} :
             /\ sem_state' = SemAdd(syncs.await_present, IF next_image_signals(e) THEN 1 ELSE 0)
             /\ UNCHANGED acquire_image_index
             /\ log' = log \o <<Ev("reset_fences", fence_ready, "Ok"),
                                 Ev("next_image", 0, e),
                                 Ev("render_frame", 0, "SwapchainRecreate")>>
             /\ response_feedback("SwapchainRecreate", "lp_tick")
             /\ aborted' = aborted + 1
             /\ UNCHANGED result
    /\ UNCHANGED <<swapchain, syncs, frame_counter, next_handle, pending,
                   submitted, app_commands, fence_ready, await_render, present_args,
                   iters, completed>>
    /\ UNCHANGED <<env_vars, upload_vars, aux_vars>>

\* render_frame: swapchain.next_image(Some(await_present), None).
RenderAcquire ==
    /\ pc = "rf_acquire"
    /\ \/ \E image_index \in 0 .. (swapchain.images - 1) :
             /\ acquire_image_index' = image_index
             /\ sem_state' = SemAdd(syncs.await_present, 1)
             /\ log' = Append(log, Ev("next_image", image_index, "Ok"))
             /\ pc' = "rf_reset"
             /\ UNCHANGED <<ret, result, aborted>>
       \/ \E e \in SwapchainSyncError :
             /\ sem_state' = SemAdd(syncs.await_present, IF next_image_signals(e) THEN 1 ELSE 0)
             /\ UNCHANGED acquire_image_index
             /\ IF next_image_error(e) = "SwapchainRecreate"
                THEN /\ log' = log \o <<Ev("next_image", 0, e),
                                        Ev("render_frame", 0, "SwapchainRecreate")>>
                     /\ response_feedback("SwapchainRecreate", "lp_tick")
                     /\ aborted' = aborted + 1
                     /\ UNCHANGED result
                ELSE /\ Fatal(<<Ev("next_image", 0, e), Ev("render_frame", 0, "Err")>>)
                     /\ UNCHANGED <<ret, aborted>>
    /\ UNCHANGED <<swapchain, syncs, frame_counter, fence_state, next_handle, pending,
                   submitted, app_commands, fence_ready, await_render, present_args,
                   iters, completed>>
    /\ UNCHANGED <<env_vars, upload_vars, aux_vars>>

\* render_frame: reset_fences(&[fence_ready]).
RenderResetFence ==
    /\ pc = "rf_reset"
    /\ \/ /\ fence_state' = [fence_state EXCEPT ![fence_ready] = FALSE]
          /\ log' = Append(log, Ev("reset_fences", fence_ready, "Ok"))
          /\ pc' = "rf_render"
          /\ UNCHANGED result
       \/ /\ Fatal(<<Ev("reset_fences", fence_ready, "Err"), Ev("render_frame", 0, "Err")>>)
          /\ UNCHANGED fence_state
    /\ UNCHANGED <<ret, swapchain, syncs, frame_counter, sem_state, next_handle, pending,
                   submitted, app_commands, local_vars, count_vars>>
    /\ UNCHANGED <<env_vars, upload_vars, aux_vars>>

\* VulkanExample::render_frame: one batch that waits on await_present, runs
\* commands[image_index] and signals device_available when the GPU is done.
SubmitCI(device_available, await_present, image_index) ==
    [fence |-> device_available, wait |-> await_present, command |-> image_index]

\* render_frame: app.render_frame(device, fence_ready, await_present, index)?
RenderCallback ==
    /\ pc = "rf_render"
    /\ \/ /\ pending' = pending \cup
                 {SubmitCI(fence_ready, syncs.await_present, acquire_image_index)}
          /\ submitted' = submitted \cup {fence_ready}
          /\ sem_state' = SemAdd(syncs.await_present, -1)
          /\ log' = Append(log, Ev("app_render_frame", fence_ready, "Ok"))
          /\ await_render' = backend_res.await_rendering
          /\ pc' = "rf_present"
          /\ UNCHANGED result
       \/ /\ Fatal(<<Ev("app_render_frame", fence_ready, "Err"), Ev("render_frame", 0, "Err")>>)
          /\ UNCHANGED <<pending, submitted, sem_state, await_render>>
    /\ UNCHANGED <<ret, swapchain, syncs, frame_counter, fence_state, next_handle,
                   app_commands, fence_ready, acquire_image_index, present_args,
                   count_vars>>
    /\ UNCHANGED <<env_vars, upload_vars, aux_vars>>

\* A plausible slip: only SurfaceOutDate is treated as recoverable.
present_error_suboptimal_fatal(e) ==
    IF e = "SurfaceOutDate" THEN "SwapchainRecreate" ELSE "Err"

\* What render_frame returns for an error of present.
present_error(e) ==
    IF e \in {"SurfaceOutDate", "SubOptimal"} THEN "SwapchainRecreate" ELSE "Err"

\* A plausible slip: the image is chosen by the frame slot instead of by the
\* index that next_image returned.
swapchain_present_slot_index(wait, image_index) ==
    [wait |-> <<wait>>, image_index |-> current_frame(frame_counter)]

\* The arguments of swapchain.present(&[await_render], acquire_image_index).
swapchain_present(wait, image_index) ==
    [wait |-> <<wait>>, image_index |-> image_index]

\* render_frame: swapchain.present(&[await_render], acquire_image_index).
RenderPresent ==
    /\ pc = "rf_present"
    /\ \/ /\ log' = log \o <<Ev("present", acquire_image_index, "Ok"),
                             Ev("render_frame", 0, "Rendering")>>
          /\ response_feedback("Rendering", "lp_tick")
          /\ completed' = completed + 1
          /\ UNCHANGED <<result, aborted>>
       \/ \E e \in SwapchainSyncError :
             IF present_error(e) = "SwapchainRecreate"
             THEN /\ log' = log \o <<Ev("present", acquire_image_index, e),
                                     Ev("render_frame", 0, "SwapchainRecreate")>>
                  /\ response_feedback("SwapchainRecreate", "lp_tick")
                  /\ aborted' = aborted + 1
                  /\ UNCHANGED <<result, completed>>
             ELSE /\ Fatal(<<Ev("present", acquire_image_index, e),
                             Ev("render_frame", 0, "Err")>>)
                  /\ UNCHANGED <<ret, completed, aborted>>
    /\ present_args' = swapchain_present(await_render, acquire_image_index)
    /\ UNCHANGED <<swapchain, syncs, frame_counter, gpu_vars, app_commands, fence_ready,
                   acquire_image_index, await_render, iters>>
    /\ UNCHANGED <<env_vars, upload_vars, aux_vars>>

\* A plausible slip: the frame counter is left out of the bookkeeping.
TickFrame_skip_next ==
    /\ pc = "lp_tick"
    /\ acquire_image_index' = 0 /\ await_render' = 0 /\ present_args' = NoPresent
    /\ UNCHANGED fence_ready
    /\ log' = log \o <<Ev("tick_frame", 0, "Ok"), Ev("fps_tick", 0, "Ok")>>
    /\ pc' = "lp_poll"
    /\ UNCHANGED <<ret, result, swapchain, syncs, frame_counter, gpu_vars, app_commands,
                   count_vars>>
    /\ UNCHANGED <<env_vars, upload_vars, aux_vars>>

\* A plausible slip: the frame counter is advanced twice in one iteration.
TickFrame_twice ==
    /\ pc = "lp_tick"
    /\ acquire_image_index' = 0 /\ await_render' = 0 /\ present_args' = NoPresent
    /\ UNCHANGED fence_ready
    /\ frame_counter' = next_frame(next_frame(frame_counter))
    /\ log' = log \o <<Ev("tick_frame", 0, "Ok"), Ev("next_frame", 0, "Ok"),
                       Ev("next_frame", 0, "Ok"), Ev("fps_tick", 0, "Ok")>>
    /\ pc' = "lp_poll"
    /\ UNCHANGED <<ret, result, swapchain, syncs, gpu_vars, app_commands,
                   count_vars>>
    /\ UNCHANGED <<env_vars, upload_vars, aux_vars>>

\* A plausible slip: the close request is also tested where the frame ends, and
\* the loop is left there without the bookkeeping.
TickFrame_preempt ==
    /\ pc = "lp_tick"
    /\ acquire_image_index' = 0 /\ await_render' = 0 /\ present_args' = NoPresent
    /\ UNCHANGED fence_ready
    /\ IF cancel # "none"
       THEN /\ pc' = "ln_wait_idle"
            /\ UNCHANGED <<frame_counter, log>>
       ELSE /\ frame_counter' = next_frame(frame_counter)
            /\ log' = log \o <<Ev("tick_frame", 0, "Ok"), Ev("next_frame", 0, "Ok"),
                               Ev("fps_tick", 0, "Ok")>>
            /\ pc' = "lp_poll"
    /\ UNCHANGED <<ret, result, swapchain, syncs, gpu_vars, app_commands,
                   count_vars>>
    /\ UNCHANGED <<env_vars, upload_vars, aux_vars>>

\* main_loop: input_handler.tick_frame, frame_counter.next_frame,
\* fps_counter.tick_frame.  The locals of render_frame other than the fence
\* are gone by now.
TickFrame ==
    /\ pc = "lp_tick"
    /\ acquire_image_index' = 0 /\ await_render' = 0 /\ present_args' = NoPresent
    /\ UNCHANGED fence_ready
    /\ frame_counter' = next_frame(frame_counter)
    /\ log' = log \o <<Ev("tick_frame", 0, "Ok"), Ev("next_frame", 0, "Ok"),
                       Ev("fps_tick", 0, "Ok")>>
    /\ pc' = "lp_poll"
    /\ UNCHANGED <<ret, result, swapchain, syncs, gpu_vars, app_commands,
                   count_vars>>
    /\ UNCHANGED <<env_vars, upload_vars, aux_vars>>

\* vkDeviceWaitIdle returns Ok only once every submitted batch has retired.
wait_idle == pending = {}

\* A plausible slip: the recreation starts without waiting for the device.
RecreateWaitIdle_skipped ==
    /\ pc = "rc_wait_idle"
    /\ log' = Append(log, Ev("wait_idle", 0, "Ok"))
    /\ pc' = "rc_rebuild"
    /\ UNCHANGED <<ret, result, swapchain, syncs, frame_counter, gpu_vars, app_commands,
                   local_vars, count_vars>>
    /\ UNCHANGED <<env_vars, upload_vars, aux_vars>>

\* response_feedback!, SwapchainRecreate arm: vulkan.wait_idle()?
RecreateWaitIdle ==
    /\ pc = "rc_wait_idle"
    /\ \/ /\ wait_idle
          /\ log' = Append(log, Ev("wait_idle", 0, "Ok"))
          /\ pc' = "rc_rebuild"
          /\ UNCHANGED result
       \/ Fatal(<<Ev("wait_idle", 0, "Err")>>)
    /\ UNCHANGED <<ret, swapchain, syncs, frame_counter, gpu_vars, app_commands,
                   local_vars, count_vars>>
    /\ UNCHANGED <<env_vars, upload_vars, aux_vars>>

\* response_feedback!: vulkan.recreate_swapchain(&window)?  The rebuilt
\* swapchain may hold another number of images.
RecreateSwapchain ==
    /\ pc = "rc_rebuild"
    /\ \/ \E n \in 1..MaxFrames :
             /\ swapchain' = [images |-> n]
             /\ log' = Append(log, Ev("recreate_swapchain", 0, "Ok"))
             /\ pc' = "rc_reload"
             /\ UNCHANGED result
       \/ /\ Fatal(<<Ev("recreate_swapchain", 0, "Err")>>)
          /\ UNCHANGED swapchain
    /\ UNCHANGED <<ret, syncs, frame_counter, gpu_vars, app_commands, local_vars,
                   count_vars>>
    /\ UNCHANGED <<env_vars, upload_vars, aux_vars>>

\* response_feedback!: app.swapchain_reload(&device, &vulkan.swapchain)?
\* VulkanExample::swapchain_reload rebuilds and re-records per image.
SwapchainReload ==
    /\ pc = "rc_reload"
    /\ \/ /\ app_commands' = swapchain.images
          /\ log' = Append(log, Ev("swapchain_reload", 0, "Ok"))
          /\ pc' = ret
          /\ UNCHANGED result
       \/ /\ Fatal(<<Ev("swapchain_reload", 0, "Err")>>)
          /\ UNCHANGED app_commands
    /\ UNCHANGED <<ret, swapchain, syncs, frame_counter, gpu_vars, local_vars, count_vars>>
    /\ UNCHANGED <<env_vars, upload_vars, aux_vars>>

\* A plausible slip: launch tears down without waiting for the device.
LaunchWaitIdle_skipped ==
    /\ pc = "ln_wait_idle"
    /\ log' = Append(log, Ev("wait_idle", 0, "Ok"))
    /\ pc' = "ln_deinit"
    /\ UNCHANGED <<ret, result, swapchain, syncs, frame_counter, gpu_vars, app_commands,
                   local_vars, count_vars>>
    /\ UNCHANGED <<env_vars, upload_vars, aux_vars>>

\* launch after main_loop returned Ok: vulkan.wait_idle()?
LaunchWaitIdle ==
    /\ pc = "ln_wait_idle"
    /\ \/ /\ wait_idle
          /\ log' = Append(log, Ev("wait_idle", 0, "Ok"))
          /\ pc' = "ln_deinit"
          /\ UNCHANGED result
       \/ Fatal(<<Ev("wait_idle", 0, "Err")>>)
    /\ UNCHANGED <<ret, swapchain, syncs, frame_counter, gpu_vars, app_commands,
                   local_vars, count_vars>>
    /\ UNCHANGED <<env_vars, upload_vars, aux_vars>>

\* launch: app.deinit(&device)?
AppDeinit ==
    /\ pc = "ln_deinit"
    /\ \/ /\ app_commands' = 0
          /\ log' = Append(log, Ev("deinit", 0, "Ok"))
          /\ pc' = "ln_discard"
          /\ UNCHANGED result
       \/ /\ Fatal(<<Ev("deinit", 0, "Err")>>)
          /\ UNCHANGED app_commands
    /\ UNCHANGED <<ret, swapchain, syncs, frame_counter, gpu_vars, local_vars, count_vars>>
    /\ UNCHANGED <<env_vars, upload_vars, aux_vars>>

\* launch: syncs.discard(&device); vulkan.discard(); Ok(()).
\* SyncResource::discard destroys the semaphore and every fence and clears the
\* vector.
LaunchDiscard ==
    /\ pc = "ln_discard"
    /\ sem_state' = Without(sem_state, {syncs.await_present})
    /\ fence_state' = Without(fence_state, PoolFences)
    /\ syncs' = [syncs EXCEPT !.sync_fences = <<>>]
    /\ log' = log \o <<Ev("syncs_discard", 0, "Ok"), Ev("vulkan_discard", 0, "Ok")>>
    /\ result' = "Ok"
    /\ pc' = "done"
    /\ UNCHANGED <<ret, swapchain, frame_counter, next_handle, pending, submitted,
                   app_commands, local_vars, count_vars>>
    /\ UNCHANGED <<env_vars, upload_vars, aux_vars>>

\* -------------------------------------------------------------------- GPU
\* The graphics queue retires a submitted batch and signals its fence.
GpuRetire ==
    \E batch \in pending :
       /\ pending' = pending \ {batch}
       /\ fence_state' = IF batch.fence \in DOMAIN fence_state
                         THEN [fence_state EXCEPT ![batch.fence] = TRUE]
                         ELSE fence_state
       /\ UNCHANGED <<pc, ret, result, swapchain, syncs, frame_counter, sem_state,
                      next_handle, submitted, app_commands, local_vars, log, count_vars>>
       /\ UNCHANGED <<env_vars, upload_vars, aux_vars>>

\* ---------------------------------------------------------- upload pipeline
\* gltf/meshes/asset.rs: MeshAsset::allocate and the three steps it calls.

\* The values of one byte of asset data.
Bytes == 0..1

\* A byte of device memory is the set of values a read of it can return: one
\* value once it was written, any value while it is uninitialised.
Undefined == Bytes

\* The assets explored: 1..MaxVertexBytes bytes of vertex data and
\* 0..MaxIndexBytes bytes of index data.
BytesUpTo(lo, hi) == UNION {[1..n -> Bytes] : n \in lo..hi}

Assets == [vertex : BytesUpTo(1, MaxVertexBytes), index : BytesUpTo(0, MaxIndexBytes)]

\* The physical devices explored, each by the property flags of its memory
\* types: a discrete one (device-local memory is not host visible) and one
\* that also has a device-local, host-visible, host-coherent type.
PhysicalDevices ==
    { << {"DEVICE_LOCAL"}, {"HOST_VISIBLE", "HOST_COHERENT"} >>,
      << {"DEVICE_LOCAL"}, {"HOST_VISIBLE", "HOST_COHERENT"},
         {"DEVICE_LOCAL", "HOST_VISIBLE", "HOST_COHERENT"} >> }

\* The memory_type_bits a buffer's requirement can report on this device.
MemoryTypeBits == {DOMAIN phy, DOMAIN phy \ {Len(phy)}}

\* utils::memory::get_memory_type_index: the first memory type allowed by
\* type_bits whose property flags contain `properties`; 0 when there is none.
get_memory_type_index(type_bits, properties) ==
    LET fit == {i \in type_bits : properties \subseteq phy[i]}
    IN  IF fit = {} THEN 0 ELSE CHOOSE i \in fit : \A j \in fit : i <= j

\* BufferCI::build: a buffer of `size` bytes, not bound to any memory; its
\* requirement reports the same size and the given memory_type_bits.
BufferCI_build(size, usage, type_bits) ==
    [size |-> size, usage |-> usage, type_bits |-> type_bits,
     memory |-> 0, offset |-> 0, destroyed |-> 0]

\* MemoryAI::new(size, memory_type).build: uninitialised, unmapped memory.
MemoryAI_build(request, memory_type) ==
    [size |-> request.size, request |-> request, type |-> memory_type,
     bytes |-> [i \in 1..request.size |-> Undefined],
     mapped |-> 0, destroyed |-> 0]

\* Does the asset have index data (self.indices.buffer_ci() is Some)?
Indexed == asset.index # <<>>

\* The type_bits of the block's buffers as their requirements reported them.
vertex_requirement(block) ==
    [size |-> block.vertex.size,
     memory_type_bits |-> buffers[block.vertex.buffer].type_bits]

index_requirement(block) ==
    [size |-> block.index[1].size,
     memory_type_bits |-> buffers[block.index[1].buffer].type_bits]

\* allocate_staging: the size, memory-type mask and property flags handed to
\* get_memory_type_index and MemoryAI::new in either branch.
staging_memory_request(block) ==
    IF block.index # <<>>
    THEN [size      |-> vertex_requirement(block).size + index_requirement(block).size,
          type_bits |-> vertex_requirement(block).memory_type_bits
                           \cap index_requirement(block).memory_type_bits,
          flags     |-> {"HOST_VISIBLE", "HOST_COHERENT"}]
    ELSE [size      |-> vertex_requirement(block).size,
          type_bits |-> vertex_requirement(block).memory_type_bits,
          flags     |-> {"HOST_VISIBLE", "HOST_COHERENT"}]

\* allocate_mesh: the same for the destination memory.
mesh_memory_request(block) ==
    IF block.index # <<>>
    THEN [size      |-> vertex_requirement(block).size + index_requirement(block).size,
          type_bits |-> vertex_requirement(block).memory_type_bits
                           \cap index_requirement(block).memory_type_bits,
          flags     |-> {"DEVICE_LOCAL"}]
    ELSE [size      |-> vertex_requirement(block).size,
          type_bits |-> vertex_requirement(block).memory_type_bits,
          flags     |-> {"DEVICE_LOCAL", "HOST_COHERENT"}]

\* map_data: the bytes of `data` are written at the mapped pointer, which
\* points `offset` bytes into the memory.
map_data(bytes, offset, data) ==
    [i \in DOMAIN bytes |->
        IF i > offset /\ i <= offset + Len(data) THEN {data[i - offset]} ELSE bytes[i]]

\* An error return out of allocate through `?`: nothing is handed to the
\* caller and nothing that was created so far is touched.
UploadErr(events) ==
    /\ upc' = "done"
    /\ upload_result' = [status |-> "Err", block |-> NoBlock]
    /\ log' = log \o events

\* A new upload: any asset on any device, nothing created yet.
UploadInit ==
    /\ LoopInit
    /\ swapchain.images = 1
    /\ ShaderIdle
    /\ PoolIdle
    /\ upc = "st_vertex"
    /\ asset \in Assets
    /\ phy \in PhysicalDevices
    /\ device_next = 1
    /\ buffers = <<>>
    /\ memories = <<>>
    /\ cmd_pools = <<>>
    /\ copy_fences = <<>>
    /\ staging_block = NoBlock
    /\ mesh_block = NoBlock
    /\ command_pool = 0
    /\ copy_command = <<>>
    /\ copy_fence = 0
    /\ transfer_queue = {}
    /\ upload_result = [status |-> "none", block |-> NoBlock]
    /\ readback = [vertex |-> <<>>, index |-> <<>>]

\* allocate_staging: the vertex staging buffer (usage TRANSFER_SRC).
StagingVertexBuffer ==
    /\ upc = "st_vertex"
    /\ \/ \E type_bits \in MemoryTypeBits :
             /\ buffers' = (device_next :>
                               BufferCI_build(Len(asset.vertex), {"TRANSFER_SRC"}, type_bits))
                           @@ buffers
             /\ device_next' = device_next + 1
             /\ staging_block' = [staging_block EXCEPT
                                     !.vertex = [buffer |-> device_next,
                                                 size |-> Len(asset.vertex)]]
             /\ log' = Append(log, Ev("build_buffer", device_next, "Ok"))
             /\ upc' = IF Indexed THEN "st_index" ELSE "st_memory"
             /\ UNCHANGED upload_result
       \/ /\ UploadErr(<<Ev("build_buffer", 0, "Err")>>)
          /\ UNCHANGED <<buffers, device_next, staging_block>>
    /\ UNCHANGED <<asset, phy, memories, cmd_pools, copy_fences, mesh_block,
                   command_pool, copy_command, copy_fence, transfer_queue, readback>>
    /\ UNCHANGED <<loop_rest_vars, aux_vars>>

\* allocate_staging: the index staging buffer, only when there are indices.
StagingIndexBuffer ==
    /\ upc = "st_index"
    /\ \/ \E type_bits \in MemoryTypeBits :
             /\ buffers' = (device_next :>
                               BufferCI_build(Len(asset.index), {"TRANSFER_SRC"}, type_bits))
                           @@ buffers
             /\ device_next' = device_next + 1
             /\ staging_block' = [staging_block EXCEPT
                                     !.index = <<[buffer |-> device_next,
                                                  size |-> Len(asset.index)]>>]
             /\ log' = Append(log, Ev("build_buffer", device_next, "Ok"))
             /\ upc' = "st_memory"
             /\ UNCHANGED upload_result
       \/ /\ UploadErr(<<Ev("build_buffer", 0, "Err")>>)
          /\ UNCHANGED <<buffers, device_next, staging_block>>
    /\ UNCHANGED <<asset, phy, memories, cmd_pools, copy_fences, mesh_block,
                   command_pool, copy_command, copy_fence, transfer_queue, readback>>
    /\ UNCHANGED <<loop_rest_vars, aux_vars>>

\* get_memory_type_index found no memory type.  Its call sites take a plain
\* index from it, not a Result: either it does not return (a panic), or the
\* allocation is attempted with an index no memory type has and fails.
NoMemoryType(for, request) ==
    \/ /\ upc' = "done"
       /\ upload_result' = [status |-> "Panic", block |-> NoBlock]
       /\ log' = Append(log, Ev("get_memory_type_index",
                                [for |-> for, type_bits |-> request.type_bits,
                                 flags |-> request.flags], "None"))
    \/ UploadErr(<<Ev("get_memory_type_index",
                      [for |-> for, type_bits |-> request.type_bits,
                       flags |-> request.flags], "None"),
                   Ev("allocate_memory", 0, "Err")>>)

\* get_memory_type_index found `memory_type` and MemoryAI::build was called.
MemoryEvents(for, request, memory, out) ==
    <<Ev("get_memory_type_index",
         [for |-> for, type_bits |-> request.type_bits, flags |-> request.flags], "Ok"),
      Ev("allocate_memory", memory, out)>>

\* allocate_staging: pick the memory type and allocate the staging memory for
\* the vertex bytes followed by the index bytes.
StagingMemory ==
    /\ upc = "st_memory"
    /\ LET request == staging_memory_request(staging_block)
           memory_type == get_memory_type_index(request.type_bits, request.flags)
       IN  \/ /\ memory_type # 0
              /\ memories' = (device_next :> MemoryAI_build(request, memory_type))
                             @@ memories
              /\ device_next' = device_next + 1
              /\ staging_block' = [staging_block EXCEPT !.memory = device_next]
              /\ log' = log \o MemoryEvents("staging", request, device_next, "Ok")
              /\ upc' = "st_map_vertex"
              /\ UNCHANGED upload_result
           \/ /\ memory_type # 0
              /\ UploadErr(MemoryEvents("staging", request, 0, "Err"))
              /\ UNCHANGED <<memories, device_next, staging_block>>
           \/ /\ memory_type = 0
              /\ NoMemoryType("staging", request)
              /\ UNCHANGED <<memories, device_next, staging_block>>
    /\ UNCHANGED <<asset, phy, buffers, cmd_pools, copy_fences, mesh_block,
                   command_pool, copy_command, copy_fence, transfer_queue, readback>>
    /\ UNCHANGED <<loop_rest_vars, aux_vars>>

\* allocate_staging: map_memory(memory, 0, vertex.1) and map_data of the
\* vertex bytes.
StagingMapVertex ==
    /\ upc = "st_map_vertex"
    /\ \/ /\ memories' = [memories EXCEPT
                             ![staging_block.memory].mapped = @ + 1,
                             ![staging_block.memory].bytes = map_data(@, 0, asset.vertex)]
          /\ log' = log \o <<Ev("map_memory", 0, "Ok"), Ev("map_data", 0, "Ok")>>
          /\ upc' = IF staging_block.index # <<>> THEN "st_map_index" ELSE "st_unmap"
          /\ UNCHANGED upload_result
       \/ /\ UploadErr(<<Ev("map_memory", 0, "Err")>>)
          /\ UNCHANGED memories
    /\ UNCHANGED <<asset, phy, device_next, buffers, cmd_pools, copy_fences,
                   staging_block, mesh_block, command_pool, copy_command, copy_fence,
                   transfer_queue, readback>>
    /\ UNCHANGED <<loop_rest_vars, aux_vars>>

\* A plausible slip in allocate_staging: the index data is mapped at the start
\* of the memory instead of behind the vertex data.
StagingMapIndex_at_zero ==
    /\ upc = "st_map_index"
    /\ \/ /\ memories' = [memories EXCEPT
                             ![staging_block.memory].mapped = @ + 1,
                             ![staging_block.memory].bytes = map_data(@, 0, asset.index)]
          /\ log' = log \o <<Ev("map_memory", 0, "Ok"), Ev("map_data", 0, "Ok")>>
          /\ upc' = "st_unmap"
          /\ UNCHANGED upload_result
       \/ /\ UploadErr(<<Ev("map_memory", 0, "Err")>>)
          /\ UNCHANGED memories
    /\ UNCHANGED <<asset, phy, device_next, buffers, cmd_pools, copy_fences,
                   staging_block, mesh_block, command_pool, copy_command, copy_fence,
                   transfer_queue, readback>>
    /\ UNCHANGED <<loop_rest_vars, aux_vars>>

\* allocate_staging: map_memory(memory, vertex.1, index.1) and map_data of the
\* index bytes.  The memory is still mapped from the vertex step, so this
\* call may be rejected as well as succeed.
StagingMapIndex ==
    /\ upc = "st_map_index"
    /\ LET offset == staging_block.vertex.size
       IN  \/ /\ memories' = [memories EXCEPT
                                 ![staging_block.memory].mapped = @ + 1,
                                 ![staging_block.memory].bytes =
                                     map_data(@, offset, asset.index)]
              /\ log' = log \o <<Ev("map_memory", offset, "Ok"),
                                 Ev("map_data", offset, "Ok")>>
              /\ upc' = "st_unmap"
              /\ UNCHANGED upload_result
           \/ /\ UploadErr(<<Ev("map_memory", offset, "Err")>>)
              /\ UNCHANGED memories
    /\ UNCHANGED <<asset, phy, device_next, buffers, cmd_pools, copy_fences,
                   staging_block, mesh_block, command_pool, copy_command, copy_fence,
                   transfer_queue, readback>>
    /\ UNCHANGED <<loop_rest_vars, aux_vars>>

\* allocate_staging: unmap_memory(memory), once.
StagingUnmap ==
    /\ upc = "st_unmap"
    /\ memories' = [memories EXCEPT ![staging_block.memory].mapped = 0]
    /\ log' = Append(log, Ev("unmap_memory", staging_block.memory, "Ok"))
    /\ upc' = "st_bind_vertex"
    /\ UNCHANGED <<asset, phy, device_next, buffers, cmd_pools, copy_fences,
                   staging_block, mesh_block, command_pool, copy_command, copy_fence,
                   transfer_queue, upload_result, readback>>
    /\ UNCHANGED <<loop_rest_vars, aux_vars>>

\* allocate_staging: device.bind(vertex.0, memory, 0).
StagingBindVertex ==
    /\ upc = "st_bind_vertex"
    /\ \/ /\ buffers' = [buffers EXCEPT
                            ![staging_block.vertex.buffer].memory = staging_block.memory,
                            ![staging_block.vertex.buffer].offset = 0]
          /\ log' = Append(log, Ev("bind", staging_block.vertex.buffer, "Ok"))
          /\ upc' = IF staging_block.index # <<>> THEN "st_bind_index" ELSE "ms_vertex"
          /\ UNCHANGED upload_result
       \/ /\ UploadErr(<<Ev("bind", staging_block.vertex.buffer, "Err")>>)
          /\ UNCHANGED buffers
    /\ UNCHANGED <<asset, phy, device_next, memories, cmd_pools, copy_fences,
                   staging_block, mesh_block, command_pool, copy_command, copy_fence,
                   transfer_queue, readback>>
    /\ UNCHANGED <<loop_rest_vars, aux_vars>>

\* allocate_staging: device.bind(index.0, memory, vertex.1).
StagingBindIndex ==
    /\ upc = "st_bind_index"
    /\ \/ /\ buffers' = [buffers EXCEPT
                            ![staging_block.index[1].buffer].memory = staging_block.memory,
                            ![staging_block.index[1].buffer].offset =
                                staging_block.vertex.size]
          /\ log' = Append(log, Ev("bind", staging_block.index[1].buffer, "Ok"))
          /\ upc' = "ms_vertex"
          /\ UNCHANGED upload_result
       \/ /\ UploadErr(<<Ev("bind", staging_block.index[1].buffer, "Err")>>)
          /\ UNCHANGED buffers
    /\ UNCHANGED <<asset, phy, device_next, memories, cmd_pools, copy_fences,
                   staging_block, mesh_block, command_pool, copy_command, copy_fence,
                   transfer_queue, readback>>
    /\ UNCHANGED <<loop_rest_vars, aux_vars>>

\* allocate_mesh: the destination vertex buffer
\* (usage VERTEX_BUFFER | TRANSFER_DST).
MeshVertexBuffer ==
    /\ upc = "ms_vertex"
    /\ \/ \E type_bits \in MemoryTypeBits :
             /\ buffers' = (device_next :>
                               BufferCI_build(Len(asset.vertex),
                                              {"VERTEX_BUFFER", "TRANSFER_DST"}, type_bits))
                           @@ buffers
             /\ device_next' = device_next + 1
             /\ mesh_block' = [mesh_block EXCEPT
                                  !.vertex = [buffer |-> device_next,
                                              size |-> Len(asset.vertex)]]
             /\ log' = Append(log, Ev("build_buffer", device_next, "Ok"))
             /\ upc' = IF Indexed THEN "ms_index" ELSE "ms_memory"
             /\ UNCHANGED upload_result
       \/ /\ UploadErr(<<Ev("build_buffer", 0, "Err")>>)
          /\ UNCHANGED <<buffers, device_next, mesh_block>>
    /\ UNCHANGED <<asset, phy, memories, cmd_pools, copy_fences, staging_block,
                   command_pool, copy_command, copy_fence, transfer_queue, readback>>
    /\ UNCHANGED <<loop_rest_vars, aux_vars>>

\* allocate_mesh: the destination index buffer
\* (usage INDEX_BUFFER | TRANSFER_DST), only when there are indices.
MeshIndexBuffer ==
    /\ upc = "ms_index"
    /\ \/ \E type_bits \in MemoryTypeBits :
             /\ buffers' = (device_next :>
                               BufferCI_build(Len(asset.index),
                                              {"INDEX_BUFFER", "TRANSFER_DST"}, type_bits))
                           @@ buffers
             /\ device_next' = device_next + 1
             /\ mesh_block' = [mesh_block EXCEPT
                                  !.index = <<[buffer |-> device_next,
                                               size |-> Len(asset.index)]>>]
             /\ log' = Append(log, Ev("build_buffer", device_next, "Ok"))
             /\ upc' = "ms_memory"
             /\ UNCHANGED upload_result
       \/ /\ UploadErr(<<Ev("build_buffer", 0, "Err")>>)
          /\ UNCHANGED <<buffers, device_next, mesh_block>>
    /\ UNCHANGED <<asset, phy, memories, cmd_pools, copy_fences, staging_block,
                   command_pool, copy_command, copy_fence, transfer_queue, readback>>
    /\ UNCHANGED <<loop_rest_vars, aux_vars>>

\* allocate_mesh: pick the memory type and allocate the destination memory.
\* The buffers are returned as they are: no bind call follows.
MeshMemory ==
    /\ upc = "ms_memory"
    /\ LET request == mesh_memory_request(mesh_block)
           memory_type == get_memory_type_index(request.type_bits, request.flags)
       IN  \/ /\ memory_type # 0
              /\ memories' = (device_next :> MemoryAI_build(request, memory_type))
                             @@ memories
              /\ device_next' = device_next + 1
              /\ mesh_block' = [mesh_block EXCEPT !.memory = device_next]
              /\ log' = log \o MemoryEvents("mesh", request, device_next, "Ok")
              /\ upc' = "cp_pool"
              /\ UNCHANGED upload_result
           \/ /\ memory_type # 0
              /\ UploadErr(MemoryEvents("mesh", request, 0, "Err"))
              /\ UNCHANGED <<memories, device_next, mesh_block>>
           \/ /\ memory_type = 0
              /\ NoMemoryType("mesh", request)
              /\ UNCHANGED <<memories, device_next, mesh_block>>
    /\ UNCHANGED <<asset, phy, buffers, cmd_pools, copy_fences, staging_block,
                   command_pool, copy_command, copy_fence, transfer_queue, readback>>
    /\ UNCHANGED <<loop_rest_vars, aux_vars>>

\* copy_staging2mesh: CommandPoolCI::new(transfer family).build.
CopyCommandPool ==
    /\ upc = "cp_pool"
    /\ \/ /\ cmd_pools' = (device_next :> [destroyed |-> 0]) @@ cmd_pools
          /\ device_next' = device_next + 1
          /\ command_pool' = device_next
          /\ log' = Append(log, Ev("build_command_pool", device_next, "Ok"))
          /\ upc' = "cp_buffer"
          /\ UNCHANGED upload_result
       \/ /\ UploadErr(<<Ev("build_command_pool", 0, "Err")>>)
          /\ UNCHANGED <<cmd_pools, device_next, command_pool>>
    /\ UNCHANGED <<asset, phy, buffers, memories, copy_fences, staging_block,
                   mesh_block, copy_command, copy_fence, transfer_queue, readback>>
    /\ UNCHANGED <<loop_rest_vars, aux_vars>>

\* copy_staging2mesh: CommandBufferAI::new(command_pool, 1).build.
CopyCommandBuffer ==
    /\ upc = "cp_buffer"
    /\ \/ /\ log' = Append(log, Ev("build_command_buffer", command_pool, "Ok"))
          /\ upc' = "cp_record"
          /\ UNCHANGED upload_result
       \/ UploadErr(<<Ev("build_command_buffer", command_pool, "Err")>>)
    /\ UNCHANGED <<asset, phy, device_next, buffers, memories, cmd_pools, copy_fences,
                   staging_block, mesh_block, command_pool, copy_command, copy_fence,
                   transfer_queue, readback>>
    /\ UNCHANGED <<loop_rest_vars, aux_vars>>

\* The vk::BufferCopy of the vertex data.
vertex_copy_region(staging) ==
    [src_offset |-> 0, dst_offset |-> 0, size |-> staging.vertex.size]

\* A plausible slip in index_copy_region: the destination offset restarts at 0
\* while the source offset follows the staging layout.
index_copy_region_dst_zero(staging) ==
    [src_offset |-> staging.vertex.size,
     dst_offset |-> 0,
     size       |-> staging.index[1].size]

\* The vk::BufferCopy of the index data.
index_copy_region(staging) ==
    [src_offset |-> staging.vertex.size,
     dst_offset |-> staging.vertex.size,
     size       |-> staging.index[1].size]

\* The copy_buf2buf calls copy_staging2mesh records, in order.
copy_buf2buf(staging, mesh) ==
    <<[src |-> staging.vertex.buffer, dst |-> mesh.vertex.buffer,
       region |-> vertex_copy_region(staging)]>>
    \o (IF staging.index # <<>>
        THEN <<[src |-> staging.index[1].buffer, dst |-> mesh.index[1].buffer,
                region |-> index_copy_region(staging)]>>
        ELSE <<>>)

\* copy_staging2mesh: begin_record, the copies, end_record.
CopyRecord ==
    /\ upc = "cp_record"
    /\ \/ /\ copy_command' = copy_buf2buf(staging_block, mesh_block)
          /\ log' = log \o <<Ev("begin_record", 0, "Ok"),
                             Ev("copy_buf2buf", Len(copy_command'), "Ok"),
                             Ev("end_record", 0, "Ok")>>
          /\ upc' = "cp_fence"
          /\ UNCHANGED upload_result
       \/ /\ UploadErr(<<Ev("begin_record", 0, "Err")>>)
          /\ UNCHANGED copy_command
       \/ /\ copy_command' = copy_buf2buf(staging_block, mesh_block)
          /\ UploadErr(<<Ev("begin_record", 0, "Ok"),
                         Ev("copy_buf2buf", Len(copy_command'), "Ok"),
                         Ev("end_record", 0, "Err")>>)
    /\ UNCHANGED <<asset, phy, device_next, buffers, memories, cmd_pools, copy_fences,
                   staging_block, mesh_block, command_pool, copy_fence,
                   transfer_queue, readback>>
    /\ UNCHANGED <<loop_rest_vars, aux_vars>>

\* copy_staging2mesh: device.build(&FenceCI::new(false)).
CopyFence ==
    /\ upc = "cp_fence"
    /\ \/ /\ copy_fences' = (device_next :>
                                [signaled |-> FenceCI_build(FenceCI_new(FALSE)),
                                 destroyed |-> 0])
                            @@ copy_fences
          /\ device_next' = device_next + 1
          /\ copy_fence' = device_next
          /\ log' = Append(log, Ev("build_fence", device_next, "Ok"))
          /\ upc' = "cp_submit"
          /\ UNCHANGED upload_result
       \/ /\ UploadErr(<<Ev("build_fence", 0, "Err")>>)
          /\ UNCHANGED <<copy_fences, device_next, copy_fence>>
    /\ UNCHANGED <<asset, phy, buffers, memories, cmd_pools, staging_block, mesh_block,
                   command_pool, copy_command, transfer_queue, readback>>
    /\ UNCHANGED <<loop_rest_vars, aux_vars>>

\* copy_staging2mesh: queue_submit(transfer queue, [submit_info], fence).
CopySubmit ==
    /\ upc = "cp_submit"
    /\ \/ /\ transfer_queue' = transfer_queue
                                  \cup {[commands |-> copy_command, fence |-> copy_fence]}
          /\ log' = Append(log, Ev("queue_submit", copy_fence, "Ok"))
          /\ upc' = "cp_wait"
          /\ UNCHANGED upload_result
       \/ /\ UploadErr(<<Ev("queue_submit", copy_fence, "Err")>>)
          /\ UNCHANGED transfer_queue
    /\ UNCHANGED <<asset, phy, device_next, buffers, memories, cmd_pools, copy_fences,
                   staging_block, mesh_block, command_pool, copy_command, copy_fence,
                   readback>>
    /\ UNCHANGED <<loop_rest_vars, aux_vars>>

\* A plausible slip: the wait returns without looking at the fence.
copy_wait_no_block(fence) == TRUE

\* wait_for_fences(&[fence], true, Infinite) returns Ok only once the fence
\* is signaled.
copy_wait(fence) == copy_fences[fence].signaled

\* copy_staging2mesh: the blocking wait for the copy, or a device error.
CopyWait ==
    /\ upc = "cp_wait"
    /\ \/ /\ copy_wait(copy_fence)
          /\ log' = Append(log, Ev("wait_for_fences", copy_fence, "Ok"))
          /\ upc' = "cp_discard"
          /\ UNCHANGED upload_result
       \/ UploadErr(<<Ev("wait_for_fences", copy_fence, "Err")>>)
    /\ UNCHANGED <<asset, phy, device_next, buffers, memories, cmd_pools, copy_fences,
                   staging_block, mesh_block, command_pool, copy_command, copy_fence,
                   transfer_queue, readback>>
    /\ UNCHANGED <<loop_rest_vars, aux_vars>>

\* copy_staging2mesh: device.discard(fence); device.discard(command_pool).
CopyDiscard ==
    /\ upc = "cp_discard"
    /\ copy_fences' = [copy_fences EXCEPT ![copy_fence].destroyed = @ + 1]
    /\ cmd_pools' = [cmd_pools EXCEPT ![command_pool].destroyed = @ + 1]
    /\ log' = log \o <<Ev("discard_fence", copy_fence, "Ok"),
                       Ev("discard_command_pool", command_pool, "Ok")>>
    /\ upc' = "st_discard"
    /\ UNCHANGED <<asset, phy, device_next, buffers, memories, staging_block,
                   mesh_block, command_pool, copy_command, copy_fence, transfer_queue,
                   upload_result, readback>>
    /\ UNCHANGED <<loop_rest_vars, aux_vars>>

\* The buffers of a block.
BlockBuffers(block) ==
    {block.vertex.buffer} \cup {block.index[i].buffer : i \in DOMAIN block.index}

\* A plausible slip in MeshAssetBlock::discard: the index buffer is forgotten.
MeshAssetBlock_discard_vertex_only(block) ==
    [b \in DOMAIN buffers |->
        IF b = block.vertex.buffer
        THEN [buffers[b] EXCEPT !.destroyed = @ + 1] ELSE buffers[b]]

\* MeshAssetBlock::discard: the vertex buffer and, if there is one, the index
\* buffer are destroyed (the memory follows, see StagingDiscard).
MeshAssetBlock_discard(block) ==
    [b \in DOMAIN buffers |->
        IF b \in BlockBuffers(block)
        THEN [buffers[b] EXCEPT !.destroyed = @ + 1] ELSE buffers[b]]

\* allocate: staging_block.discard(device), then Ok(mesh_block).
StagingDiscard ==
    /\ upc = "st_discard"
    /\ buffers' = MeshAssetBlock_discard(staging_block)
    /\ memories' = [memories EXCEPT ![staging_block.memory].destroyed = @ + 1]
    /\ log' = Append(log, Ev("discard_block", staging_block.memory, "Ok"))
    /\ upload_result' = [status |-> "Ok", block |-> mesh_block]
    /\ upc' = "done"
    /\ UNCHANGED <<asset, phy, device_next, cmd_pools, copy_fences, staging_block,
                   mesh_block, command_pool, copy_command, copy_fence, transfer_queue,
                   readback>>
    /\ UNCHANGED <<loop_rest_vars, aux_vars>>

\* What a read of byte `o` of buffer `b` can return: the byte of the memory
\* the buffer is bound to, anything when the buffer has no live memory there.
ReadCell(mems, b, o) ==
    LET buf == buffers[b]
    IN  IF /\ buf.destroyed = 0
           /\ buf.memory # 0
           /\ mems[buf.memory].destroyed = 0
           /\ o < buf.size
           /\ buf.offset + o < mems[buf.memory].size
        THEN mems[buf.memory].bytes[buf.offset + o + 1]
        ELSE Undefined

\* The transfer queue executes one recorded copy: each byte of the region
\* that lies inside a destination buffer bound to live memory is written;
\* a write that has no such place is lost.
ExecuteCopy(mems, cmd) ==
    LET dst == buffers[cmd.dst]
        r   == cmd.region
    IN  IF dst.memory = 0 \/ dst.destroyed # 0
        THEN mems
        ELSE [mems EXCEPT ![dst.memory].bytes =
                 [i \in DOMAIN @ |->
                     LET o == i - 1 - dst.offset - r.dst_offset
                     IN  IF o >= 0 /\ o < r.size /\ r.dst_offset + o < dst.size
                         THEN ReadCell(mems, cmd.src, r.src_offset + o)
                         ELSE @[i]]]

RECURSIVE ExecuteCommands(_, _)
ExecuteCommands(mems, cmds) ==
    IF cmds = <<>> THEN mems
    ELSE ExecuteCommands(ExecuteCopy(mems, Head(cmds)), Tail(cmds))

\* The transfer queue executes a submission and signals its fence.
TransferRetire ==
    /\ \E batch \in transfer_queue :
          /\ transfer_queue' = transfer_queue \ {batch}
          /\ memories' = ExecuteCommands(memories, batch.commands)
          /\ copy_fences' = [copy_fences EXCEPT ![batch.fence].signaled = TRUE]
    /\ UNCHANGED <<upc, asset, phy, device_next, buffers, cmd_pools, staging_block,
                   mesh_block, command_pool, copy_command, copy_fence, upload_result,
                   readback>>
    /\ UNCHANGED <<log, loop_rest_vars, aux_vars>>

\* The byte sequences a readback of buffer b can give.
ReadBuffer(b) ==
    {s \in [1..buffers[b].size -> Bytes] :
        \A i \in 1..buffers[b].size : s[i] \in ReadCell(memories, b, i - 1)}

\* The caller reads the destination buffers of the block it was handed.
Readback ==
    /\ upc = "done"
    /\ upload_result.status = "Ok"
    /\ \E v \in ReadBuffer(upload_result.block.vertex.buffer) :
          \E x \in (IF upload_result.block.index = <<>> THEN {<<>>}
                    ELSE ReadBuffer(upload_result.block.index[1].buffer)) :
             readback' = [vertex |-> v, index |-> x]
    /\ upc' = "read"
    /\ UNCHANGED <<asset, phy, device_next, buffers, memories, cmd_pools, copy_fences,
                   staging_block, mesh_block, command_pool, copy_command, copy_fence,
                   transfer_queue, upload_result>>
    /\ UNCHANGED <<log, loop_rest_vars, aux_vars>>

UploadNext ==
    \/ StagingVertexBuffer
    \/ StagingIndexBuffer
    \/ StagingMemory
    \/ StagingMapVertex
    \/ StagingMapIndex
    \/ StagingUnmap
    \/ StagingBindVertex
    \/ StagingBindIndex
    \/ MeshVertexBuffer
    \/ MeshIndexBuffer
    \/ MeshMemory
    \/ CopyCommandPool
    \/ CopyCommandBuffer
    \/ CopyRecord
    \/ CopyFence
    \/ CopySubmit
    \/ CopyWait
    \/ CopyDiscard
    \/ StagingDiscard
    \/ TransferRetire
    \/ Readback

UploadSpec == UploadInit /\ [][UploadNext]_vars

\* ------------------------------------------------------------ shader files
\* ci/shader.rs: load_spriv_bytes(path).
\* The files explored: one that File::open cannot open, and files of up to
\* MaxFileBytes bytes that open.
ShaderFiles ==
    {[opens |-> FALSE, content |-> <<>>]}
    \cup [opens : {TRUE}, content : BytesUpTo(0, MaxFileBytes)]

\* What one `next()` of file.bytes() can yield at file position `pos`:
\* Some(Ok(byte)) with the byte at the position, or Some(Err(_)); after a
\* failed read the file position is unspecified, it stays or moves on.
ReadResults(file, pos) ==
    {[ok |-> TRUE, byte |-> file.content[pos + 1], pos |-> pos + 1] :
        p \in {q \in {pos} : q < Len(file.content)}}
    \cup {[ok |-> FALSE, byte |-> 0, pos |-> p] :
             p \in {q \in {pos, pos + 1} : q <= Len(file.content)}}

\* filter_map(|byte| byte.ok()): an Ok item is kept, an Err item is dropped.
filter_map_ok(read) == IF read.ok THEN <<read.byte>> ELSE <<>>

\* A load starts: any file, nothing read yet.
ShaderInit ==
    /\ LoopInit
    /\ swapchain.images = 1
    /\ UploadIdle
    /\ PoolIdle
    /\ shader_pc = "open"
    /\ shader_file \in ShaderFiles
    /\ shader_pos = 0
    /\ shader_errors = 0
    /\ shader_bytes = <<>>
    /\ shader_result = [status |-> "none", bytes |-> <<>>]

\* let file = File::open(path.clone()).map_err(|_| VkError::path(path))?;
ShaderOpen ==
    /\ shader_pc = "open"
    /\ IF shader_file.opens
       THEN /\ shader_pc' = "read"
            /\ UNCHANGED shader_result
       ELSE /\ shader_pc' = "done"
            /\ shader_result' = [status |-> "Err", bytes |-> <<>>]
    /\ UNCHANGED <<shader_file, shader_pos, shader_errors, shader_bytes>>
    /\ UNCHANGED <<loop_vars, upload_vars, pool_vars>>

\* file.bytes().filter_map(|byte| byte.ok()).collect(): one item of the
\* iterator. A failed read is dropped and the iteration goes on.
ShaderRead ==
    /\ shader_pc = "read"
    /\ \E read \in ReadResults(shader_file, shader_pos) :
          /\ ~read.ok => shader_errors < MaxReadErrors
          /\ shader_bytes' = shader_bytes \o filter_map_ok(read)
          /\ shader_pos' = read.pos
          /\ shader_errors' = IF read.ok THEN shader_errors ELSE shader_errors + 1
    /\ UNCHANGED <<shader_pc, shader_file, shader_result>>
    /\ UNCHANGED <<loop_vars, upload_vars, pool_vars>>

\* The iterator is exhausted at the end of the file: Ok(bytes).
ShaderCollect ==
    /\ shader_pc = "read"
    /\ shader_pos = Len(shader_file.content)
    /\ shader_pc' = "done"
    /\ shader_result' = [status |-> "Ok", bytes |-> shader_bytes]
    /\ UNCHANGED <<shader_file, shader_pos, shader_errors, shader_bytes>>
    /\ UNCHANGED <<loop_vars, upload_vars, pool_vars>>

ShaderNext ==
    \/ ShaderOpen
    \/ ShaderRead
    \/ ShaderCollect

ShaderSpec == ShaderInit /\ [][ShaderNext]_vars

\* ------------------------------------------------- a SyncResource on its own
\* workflow/loops.rs: SyncResource::new, reset and discard, called in any
\* order on one pool.
\* The handles in the pool's fence vector `s.sync_fences`.
FencesOf(s) == {s.sync_fences[i] : i \in DOMAIN s.sync_fences}

\* How often device.discard was called on handle h.
DestroyCount(count, h) == IF h \in DOMAIN count THEN count[h] ELSE 0

\* `count` after one more device.discard on every handle in S.
Discarded(count, S) ==
    [h \in DOMAIN count \cup S |->
        DestroyCount(count, h) + (IF h \in S THEN 1 ELSE 0)]

\* A plausible slip in SyncResource::discard: the semaphore is forgotten.
SyncResource_discard_fences_only(self, sems, fences, count) ==
    [ syncs  |-> [self EXCEPT !.sync_fences = <<>>],
      sems   |-> sems,
      fences |-> Without(fences, FencesOf(self)),
      count  |-> Discarded(count, FencesOf(self)) ]

\* SyncResource::discard: device.discard(self.await_present), device.discard
\* of every fence, sync_fences.clear(). frame_count and the (now stale) value
\* of await_present stay.
SyncResource_discard(self, sems, fences, count) ==
    [ syncs  |-> [self EXCEPT !.sync_fences = <<>>],
      sems   |-> Without(sems, {self.await_present}),
      fences |-> Without(fences, FencesOf(self)),
      count  |-> Discarded(Discarded(count, {self.await_present}), FencesOf(self)) ]

\* SyncResource::new whose k-th creation fails (k = 0: the semaphore, k >= 1:
\* the k-th fence): the `?` returns at once, the semaphore and the k - 1
\* fences created before it are dropped as plain handles and stay alive.
SyncResource_new_failing(base, frame_count, k) ==
    [ sems   |-> [h \in {base + i : i \in {j \in {0} : k > 0}} |->
                     SemaphoreCI_build(SemaphoreCI_new)],
      fences |-> [h \in {base + i : i \in 1..(k - 1)} |->
                     FenceCI_build(FenceCI_new(TRUE))],
      next   |-> base + k ]

\* A pool as SyncResource::new(device, n) returned it, for any n.
PoolInit ==
    /\ LoopInit
    /\ swapchain.images = 1
    /\ UploadIdle
    /\ ShaderIdle
    /\ \E n \in 1..MaxFrames :
          LET made == SyncResource_new(1, n)
          IN  /\ pool = made.syncs
              /\ pool_sem_state = made.sems
              /\ pool_fence_state = made.fences
              /\ pool_next_handle = made.next
              /\ pool_log = <<Ev("syncs_new", n, "Ok")>>
    /\ destroyed = <<>>

\* A frame uses the pool (render_frame): the lookup
\* self.syncs.sync_fences[current_frame], for any value the frame counter can
\* have, and device.reset_fences on that fence, which leaves it unsignaled.
\* The lookup panics when the vector has no such element.
PoolResetFence ==
    /\ Len(pool_log) < MaxPoolOps
    /\ \E current \in 0 .. (pool.frame_count - 1) :
          IF current + 1 \in DOMAIN pool.sync_fences
          THEN LET fence == pool.sync_fences[current + 1]
               IN  /\ pool_fence_state' = [pool_fence_state EXCEPT ![fence] = FALSE]
                   /\ pool_log' = Append(pool_log, Ev("reset_fences", fence, "Ok"))
          ELSE /\ pool_log' = Append(pool_log, Ev("sync_fences_index", current, "Panic"))
               /\ UNCHANGED pool_fence_state
    /\ UNCHANGED <<pool, pool_sem_state, pool_next_handle, destroyed>>
    /\ UNCHANGED <<loop_vars, upload_vars, shader_vars>>

\* SyncResource::reset: self.discard(device);
\* *self = SyncResource::new(device, self.frame_count)?; Ok(()).
\* When new fails the `?` returns before the assignment and self stays as
\* discard left it.
SyncResource_reset ==
    /\ Len(pool_log) < MaxPoolOps
    /\ LET gone == SyncResource_discard(pool, pool_sem_state, pool_fence_state,
                                        destroyed)
       IN  /\ destroyed' = gone.count
           /\ \/ LET made == SyncResource_new(pool_next_handle, gone.syncs.frame_count)
                 IN  /\ pool' = made.syncs
                     /\ pool_sem_state' = made.sems @@ gone.sems
                     /\ pool_fence_state' = made.fences @@ gone.fences
                     /\ pool_next_handle' = made.next
                     /\ pool_log' = Append(pool_log, Ev("syncs_reset", 0, "Ok"))
              \/ \E k \in 0..gone.syncs.frame_count :
                    LET made == SyncResource_new_failing(pool_next_handle,
                                                         gone.syncs.frame_count, k)
                    IN  /\ pool' = gone.syncs
                        /\ pool_sem_state' = made.sems @@ gone.sems
                        /\ pool_fence_state' = made.fences @@ gone.fences
                        /\ pool_next_handle' = made.next
                        /\ pool_log' = Append(pool_log, Ev("syncs_reset", k, "Err"))
    /\ UNCHANGED <<loop_vars, upload_vars, shader_vars>>

\* SyncResource::discard called on the pool (launch does so at its end).
DiscardPool ==
    /\ Len(pool_log) < MaxPoolOps
    /\ LET gone == SyncResource_discard(pool, pool_sem_state, pool_fence_state,
                                        destroyed)
       IN  /\ pool' = gone.syncs
           /\ pool_sem_state' = gone.sems
           /\ pool_fence_state' = gone.fences
           /\ destroyed' = gone.count
    /\ pool_log' = Append(pool_log, Ev("syncs_discard", 0, "Ok"))
    /\ UNCHANGED pool_next_handle
    /\ UNCHANGED <<loop_vars, upload_vars, shader_vars>>

\* ProcPipeline::new: let syncs = SyncResource::new(&device, frame_in_flight)?
\* With Ok the new pipeline holds the new pool; when the k-th creation fails
\* (FenceCI::build: create_fence(..).or(Err(VkError::create("Fence")))?) the
\* `?` hands the creation error on and no pipeline is made.
PoolNew ==
    /\ Len(pool_log) < MaxPoolOps
    /\ \E n \in 1 .. MaxFrames :
          \/ LET made == SyncResource_new(pool_next_handle, n)
             IN  /\ pool' = made.syncs
                 /\ pool_sem_state' = made.sems @@ pool_sem_state
                 /\ pool_fence_state' = made.fences @@ pool_fence_state
                 /\ pool_next_handle' = made.next
                 /\ pool_log' = Append(pool_log, Ev("syncs_new", n, "Ok"))
          \/ \E k \in 0 .. n :
                LET made == SyncResource_new_failing(pool_next_handle, n, k)
                IN  /\ pool_sem_state' = made.sems @@ pool_sem_state
                    /\ pool_fence_state' = made.fences @@ pool_fence_state
                    /\ pool_next_handle' = made.next
                    /\ pool_log' = Append(pool_log, Ev("syncs_new", k, "VkError::create"))
                    /\ UNCHANGED pool
    /\ UNCHANGED destroyed
    /\ UNCHANGED <<loop_vars, upload_vars, shader_vars>>

PoolNext ==
    \/ PoolNew
    \/ PoolResetFence
    \/ SyncResource_reset
    \/ DiscardPool

PoolSpec == PoolInit /\ [][PoolNext]_vars

\* ------------------------------------------------------------ specification
Next ==
    \/ ProcPipeline_new
    \/ AppInit
    \/ PollEvents
    \/ ReceiveInput
    \/ RenderWaitFence
    \/ RenderAcquire
    \/ RenderResetFence
    \/ RenderCallback
    \/ RenderPresent
    \/ TickFrame
    \/ RecreateWaitIdle
    \/ RecreateSwapchain
    \/ SwapchainReload
    \/ LaunchWaitIdle
    \/ AppDeinit
    \/ LaunchDiscard
    \/ GpuRetire
    \/ CloseRequest

Spec == Init /\ [][Next]_vars

\* ------------------------------------------------------------------ claims
\* Positions of the current iteration's log that hold a call of `op`.
Calls(op) == {i \in DOMAIN log : log[i].op = op}

\* C1: within one render_frame call the fence of the current slot is reset
\* only after a wait on that same fence succeeded and after an image was
\* acquired, and at most once before the submission that signals it again;
\* until then nobody un-signals it.
C1_ResetOnlyAfterWait ==
    /\ \A i \in Calls("reset_fences") :
          /\ \E j \in 1..(i - 1) : log[j] = Ev("wait_for_fences", log[i].arg, "Ok")
          /\ \E j \in 1..(i - 1) : log[j].op = "next_image" /\ log[j].out = "Ok"
          /\ Calls("reset_fences") = {i}
          /\ \A j \in Calls("app_render_frame") : i < j
    /\ pc \in {"rf_acquire", "rf_reset"} => fence_state[fence_ready]
    /\ (pc = "rc_wait_idle" /\ Calls("reset_fences") = {} /\ Calls("wait_for_fences") # {})
          => fence_state[fence_ready]

\* C1 witness: a fence that an earlier frame had submitted was waited on,
\* then reset, and the callback is about to run.
C1_Witness ==
    /\ pc = "rf_render"
    /\ fence_ready \in submitted
    /\ ~fence_state[fence_ready]
    /\ Calls("reset_fences") # {}

\* C2: the render callback is invoked for a slot only when every batch that
\* was submitted earlier with that slot's fence has retired.
C2_NoReuseBeforeFence ==
    pc = "rf_render" => \A batch \in pending : batch.fence # fence_ready

\* C2 witness: the callback is about to reuse a slot that was submitted
\* before, while batches of other slots are still in flight.
C2_Witness ==
    /\ pc = "rf_render"
    /\ fence_ready \in submitted
    /\ pending # {}

\* C3: at most one unconsumed "image acquired" signal is outstanding on
\* await_present, whatever the iterations yielded.
C3_OneOutstandingSignal ==
    \A sem \in DOMAIN sem_state : sem_state[sem] \in {0, 1}

\* C4: once SyncResource::new has succeeded for N frames the pool holds N
\* distinct fences, all signaled, and an unsignaled semaphore, so that the
\* first wait on each slot does not block.
C4_PoolAfterNew ==
    /\ pc = "ln_init" =>
          /\ syncs.frame_count = swapchain.images
          /\ Len(syncs.sync_fences) = syncs.frame_count
          /\ Cardinality(PoolFences) = syncs.frame_count
          /\ \A fence \in PoolFences : fence \in DOMAIN fence_state /\ fence_state[fence]
          /\ syncs.await_present \in DOMAIN sem_state
          /\ sem_state[syncs.await_present] = 0
    /\ pc = "rf_wait" =>
          LET fence == syncs.sync_fences[current_frame(frame_counter) + 1]
          IN  fence \notin submitted => wait_for_fences(fence)

\* C4 witness: the first wait on the second slot of a pool of several fences.
C4_Witness ==
    /\ pc = "rf_wait"
    /\ syncs.frame_count >= 2
    /\ current_frame(frame_counter) = 1
    /\ syncs.sync_fences[2] \notin submitted

\* The outcomes of acquire and present that report a stale surface.
SurfaceStale == {"SurfaceOutDate", "SubOptimal"}

\* The current iteration's render_frame returned `out`.
RenderFrameReturned(out) == \E i \in Calls("render_frame") : log[i].out = out

C7_BookkeepingAfterRecreate ==
    /\ (RenderFrameReturned("SwapchainRecreate") /\ Last(log) = Ev("swapchain_reload", 0, "Ok"))
          => pc = "lp_tick"
    /\ (RenderFrameReturned("SwapchainRecreate") /\ pc = "lp_poll") =>
          LET n == Len(log)
          IN  /\ n >= 4
              /\ log[n - 3].op = "swapchain_reload" /\ log[n - 3].out = "Ok"
              /\ log[n - 2].op = "tick_frame"
              /\ log[n - 1].op = "next_frame"
              /\ log[n].op = "fps_tick"

\* C7 witness: the end of an iteration whose present reported a stale surface.
C7_Witness ==
    /\ pc = "lp_poll"
    /\ RenderFrameReturned("SwapchainRecreate")
    /\ \E i \in Calls("present") : log[i].out \in SurfaceStale

\* C8: SwapchainRecreate never ends the loop: after a successful recreation
\* the loop is running at the statement after the checkpoint, launch returns
\* Ok only after a Terminal action and Err only after a failed step.
C8_RecreateAbsorbed ==
    /\ result \in {"none", "Ok", "Err"}
    /\ result = "Ok" =>
          \E i \in Calls("poll_events") \cup Calls("receive_input") :
             /\ log[i].out = "Terminal"
             /\ \A k \in (i + 1)..Len(log) :
                   log[k].op \in {"wait_idle", "deinit", "syncs_discard", "vulkan_discard"}
    /\ result = "Err" => Last(log).out = "Err"
    /\ (log # <<>> /\ Last(log).out = "SwapchainRecreate") =>
          result = "none" /\ pc = "rc_wait_idle"
    /\ (log # <<>> /\ Last(log).op = "swapchain_reload" /\ Last(log).out = "Ok") =>
          result = "none" /\ pc = ret /\ pc \in {"lp_input", "rf_wait", "lp_tick"}

\* C8 witness: one iteration absorbed a recreation at each of the three
\* checkpoints and the loop is at the next iteration.
C8_Witness ==
    /\ pc = "lp_poll"
    /\ result = "none"
    /\ Cardinality({i \in Calls("swapchain_reload") : log[i].out = "Ok"}) = 3

\* C9: every recreation is wait-idle, swapchain rebuild, swapchain_reload with
\* the rebuilt swapchain, back to back; no batch is pending while the
\* swapchain is rebuilt and reloaded.
C9_RecreateOrder ==
    /\ \A i \in DOMAIN log :
          log[i].out = "SwapchainRecreate" =>
             /\ (i + 1 <= Len(log)) => log[i + 1].op = "wait_idle"
             /\ (i + 2 <= Len(log)) => log[i + 2].op = "recreate_swapchain"
             /\ (i + 3 <= Len(log)) => log[i + 3].op = "swapchain_reload"
    /\ \A i \in Calls("swapchain_reload") :
          /\ i >= 3
          /\ log[i - 1].op = "recreate_swapchain" /\ log[i - 1].out = "Ok"
          /\ log[i - 2] = Ev("wait_idle", 0, "Ok")
    /\ \A i \in Calls("recreate_swapchain") :
          i >= 2 /\ log[i - 1] = Ev("wait_idle", 0, "Ok")
    /\ pc \in {"rc_rebuild", "rc_reload"} => pending = {}
    /\ (log # <<>> /\ Last(log) = Ev("swapchain_reload", 0, "Ok")) =>
          app_commands = swapchain.images

\* C9 witness: swapchain_reload is about to run for a frame that had been
\* submitted and whose present reported a stale surface.
C9_Witness ==
    /\ pc = "rc_reload"
    /\ Calls("app_render_frame") # {}
    /\ \E i \in Calls("present") : log[i].out \in SurfaceStale

\* C10: OutOfDate and SubOptimal from acquire or present make render_frame
\* return Ok(SwapchainRecreate); TimeOut and Unknown make it return Err, which
\* ends the loop.
C10_StaleIsRecreate ==
    \A i \in Calls("next_image") \cup Calls("present") :
       /\ log[i].out \in SurfaceStale =>
             /\ i < Len(log)
             /\ log[i + 1] = Ev("render_frame", 0, "SwapchainRecreate")
             /\ (i + 1 = Len(log)) => (result = "none" /\ pc = "rc_wait_idle")
       /\ log[i].out \in SwapchainSyncError \ SurfaceStale =>
             /\ i + 1 = Len(log)
             /\ log[i + 1] = Ev("render_frame", 0, "Err")
             /\ result = "Err"
             /\ pc = "done"

\* C10 witness: the loop is running after a present that reported SubOptimal.
C10_Witness ==
    /\ pc = "lp_tick"
    /\ result = "none"
    /\ \E i \in Calls("present") : log[i].out = "SubOptimal"

\* The positions of the control thread inside render_frame.
RenderPcs == {"rf_wait", "rf_acquire", "rf_reset", "rf_render", "rf_present"}

\* The positions of the control thread after the loop was left by break.
ExitPcs == {"ln_wait_idle", "ln_deinit", "ln_discard"}

\* The calls launch makes after main_loop has returned.
ExitOps == {"wait_idle", "deinit", "syncs_discard", "vulkan_discard"}

\* C11: when the acquisition reports a stale or suboptimal surface,
\* render_frame returns SwapchainRecreate at once: the slot's fence is not
\* reset and stays signaled, the callback is not invoked, nothing is submitted
\* with that fence and nothing is presented.
C11_StaleAcquireNoPartialWork ==
    \A i \in Calls("next_image") :
       log[i].out \in SurfaceStale =>
          /\ i < Len(log) /\ log[i + 1] = Ev("render_frame", 0, "SwapchainRecreate")
          /\ Calls("reset_fences") = {}
          /\ Calls("app_render_frame") = {}
          /\ Calls("present") = {}
          /\ fence_state[fence_ready]
          /\ \A batch \in pending : batch.fence # fence_ready

\* C11 witness: the recreation starts after a SubOptimal acquisition on a slot
\* whose fence an earlier frame had used, while another slot is in flight.
C11_Witness ==
    /\ pc = "rc_wait_idle"
    /\ fence_ready \in submitted
    /\ pending # {}
    /\ \E i \in Calls("next_image") : log[i].out = "SubOptimal"

\* The outcomes that are failures other than a stale surface.
FatalOutcomes == {"Err", "TimeOut", "Unknown"}

\* C12: a failure that is not a stale surface ends the session at that step:
\* launch has returned Err, the failed call is the last call made (render_frame
\* passing it on), nothing is retried and no recreation follows it.
C12_FailureIsFatal ==
    /\ \A i \in DOMAIN log :
          log[i].out \in FatalOutcomes =>
             /\ result = "Err"
             /\ pc = "done"
             /\ \/ i = Len(log)
                \/ i + 1 = Len(log) /\ log[i + 1] = Ev("render_frame", 0, "Err")
    /\ result = "Err" => pc = "done" /\ Last(log).out = "Err"

\* C12 witness: launch returned Err because present timed out.
C12_Witness ==
    /\ result = "Err"
    /\ \E i \in Calls("present") : log[i].out = "TimeOut"

\* C13: Terminal from input polling leaves the loop before receive_input and
\* render_frame, Terminal from receive_input before render_frame; once the loop
\* is left only launch's teardown runs, never a fence wait, acquisition,
\* callback or present.
C13_TerminalLeavesLoop ==
    /\ \A i \in DOMAIN log :
          log[i].out = "Terminal" =>
             /\ pc \in ExitPcs \cup {"done"}
             /\ \A k \in (i + 1)..Len(log) : log[k].op \in ExitOps
             /\ Calls("wait_for_fences") \cup Calls("next_image")
                   \cup Calls("app_render_frame") \cup Calls("present") = {}
             /\ log[i].op = "poll_events" => Calls("receive_input") = {}
    /\ pc \in ExitPcs => \E i \in DOMAIN log : log[i].out = "Terminal"

\* C13 witness: launch returned Ok after receive_input yielded Terminal in a
\* session that had presented a frame.
C13_Witness ==
    /\ result = "Ok"
    /\ completed >= 1
    /\ \E i \in Calls("receive_input") : log[i].out = "Terminal"

\* C14: a close request that arrives while a frame is being rendered does not
\* interrupt it: render_frame runs on, the iteration finishes its bookkeeping,
\* and the loop is left only at a checkpoint, the input polling of the next
\* iteration.
C14_CooperativeTermination ==
    /\ pc = "ln_wait_idle" =>
          /\ Last(log).out = "Terminal"
          /\ Last(log).op \in {"poll_events", "receive_input"}
    /\ (cancel = "mid_render" /\ pc = "lp_poll") =>
          /\ Calls("render_frame") # {}
          /\ Last(log).op = "fps_tick"
    /\ (cancel = "mid_render" /\ pc \in ExitPcs) =>
          log[1] = Ev("poll_events", 0, "Terminal")
    /\ (cancel = "mid_render" /\ pc \in RenderPcs) => result = "none"

\* C14 witness: the close request arrived during a frame whose present then
\* succeeded, and the iteration is at its bookkeeping.
C14_Witness ==
    /\ cancel = "mid_render"
    /\ pc = "lp_tick"
    /\ RenderFrameReturned("Rendering")

\* C15: on normal exit launch runs wait-idle, app.deinit, SyncResource::discard,
\* VulkanContext::discard in this order, and the pool's semaphore and fences
\* are destroyed only while no submitted batch is pending.
C15_TeardownOrder ==
    /\ result = "Ok" =>
          LET n == Len(log)
          IN  /\ n >= 5
              /\ log[n - 4].out = "Terminal"
              /\ log[n - 3] = Ev("wait_idle", 0, "Ok")
              /\ log[n - 2] = Ev("deinit", 0, "Ok")
              /\ log[n - 1] = Ev("syncs_discard", 0, "Ok")
              /\ log[n] = Ev("vulkan_discard", 0, "Ok")
              /\ pending = {}
              /\ fence_state = <<>> /\ sem_state = <<>>
    /\ pc \in {"ln_deinit", "ln_discard"} => pending = {}
    /\ (pc \notin {"new", "done"} \/ result = "Err") =>
          /\ PoolFences \subseteq DOMAIN fence_state
          /\ syncs.await_present \in DOMAIN sem_state

\* C15 witness: the pool is about to be destroyed in a session that had
\* submitted work to the GPU.
C15_Witness ==
    /\ pc = "ln_discard"
    /\ submitted # {}

\* ------------------------------------------------- claims about the upload
\* The positions of allocate after allocate_staging has returned Ok.
StagedPcs == {"ms_vertex", "ms_index", "ms_memory", "cp_pool", "cp_buffer", "cp_record",
              "cp_fence", "cp_submit", "cp_wait", "cp_discard", "st_discard"}

\* The positions of allocate after allocate_mesh has returned Ok.
MeshedPcs == {"cp_pool", "cp_buffer", "cp_record", "cp_fence", "cp_submit", "cp_wait",
              "cp_discard", "st_discard"}

\* allocate has returned Ok(mesh_block).
UploadOk == upload_result.status = "Ok"

\* The destination buffers: those created with usage TRANSFER_DST.
DestinationBuffers == {b \in DOMAIN buffers : "TRANSFER_DST" \in buffers[b].usage}

\* C16: after allocate returned Ok the destination buffers' sizes add up to
\* B (+B2) and every readback of the destination equals the source: the
\* vertex bytes in the vertex buffer, the index bytes in the index buffer.
C16_RoundTrip ==
    upc = "read" =>
       /\ buffers[upload_result.block.vertex.buffer].size
            + (IF upload_result.block.index = <<>> THEN 0
               ELSE buffers[upload_result.block.index[1].buffer].size)
          = Len(asset.vertex) + Len(asset.index)
       /\ readback.vertex = asset.vertex
       /\ readback.index = asset.index

\* C17: the copy's fence is unsignaled until the one submission that carries
\* it has executed; allocate returns Ok, and the staging block is destroyed,
\* only after a wait on that fence succeeded, with no copy left pending.
C17_ReturnAfterFenceObserved ==
    /\ upc = "cp_submit" => ~copy_fences[copy_fence].signaled
    /\ transfer_queue # {} => ~copy_fences[copy_fence].signaled
    /\ \A batch \in transfer_queue : batch.fence = copy_fence
    /\ LET WaitedOk == \E s \in Calls("queue_submit") : \E w \in Calls("wait_for_fences") :
                          /\ Calls("queue_submit") = {s}
                          /\ log[s].arg = copy_fence /\ log[s].out = "Ok"
                          /\ s < w
                          /\ log[w].arg = copy_fence /\ log[w].out = "Ok"
                          /\ copy_fences[copy_fence].signaled
                          /\ transfer_queue = {}
       IN  /\ UploadOk => WaitedOk
           /\ \A b \in BlockBuffers(staging_block) \cap DOMAIN buffers :
                 buffers[b].destroyed > 0 => WaitedOk
           /\ (staging_block.memory \in DOMAIN memories
                 /\ memories[staging_block.memory].destroyed > 0) => WaitedOk
           /\ (copy_fence \in DOMAIN copy_fences
                 /\ copy_fences[copy_fence].destroyed > 0) => WaitedOk

\* C17 witness: an indexed upload has returned Ok.
C17_Witness ==
    /\ UploadOk
    /\ Indexed
    /\ \E w \in Calls("wait_for_fences") : log[w].out = "Ok"

\* C18: after a successful allocate the staging buffers, the staging memory,
\* the fence and the command pool were each destroyed exactly once; the
\* destination buffers and memory are live and are the block handed out.
C18_StagingGoneDestinationLive ==
    UploadOk =>
       /\ \A b \in BlockBuffers(staging_block) : buffers[b].destroyed = 1
       /\ Cardinality(BlockBuffers(staging_block)) = IF Indexed THEN 2 ELSE 1
       /\ memories[staging_block.memory].destroyed = 1
       /\ copy_fences[copy_fence].destroyed = 1
       /\ cmd_pools[command_pool].destroyed = 1
       /\ DOMAIN copy_fences = {copy_fence}
       /\ DOMAIN cmd_pools = {command_pool}
       /\ upload_result.block = mesh_block
       /\ \A b \in BlockBuffers(mesh_block) : buffers[b].destroyed = 0
       /\ memories[mesh_block.memory].destroyed = 0
       /\ DOMAIN buffers = BlockBuffers(staging_block) \cup BlockBuffers(mesh_block)
       /\ DOMAIN memories = {staging_block.memory, mesh_block.memory}
       /\ BlockBuffers(staging_block) \cap BlockBuffers(mesh_block) = {}
       /\ staging_block.memory # mesh_block.memory

\* C18 witness: an indexed upload has returned Ok and its destination was read.
C18_Witness ==
    /\ UploadOk
    /\ Indexed
    /\ upc = "read"

\* C19: a non-indexed upload creates one destination buffer and an indexed
\* one two; once allocate_staging has returned, the staging memory holds the
\* vertex bytes from offset 0 and the index bytes right behind them, the
\* index data was mapped at offset vertexSize and the index staging buffer is
\* bound at offset vertexSize of the same memory.
C19_BufferCountAndStagingLayout ==
    /\ Cardinality(DestinationBuffers) <= IF Indexed THEN 2 ELSE 1
    /\ (upc \in MeshedPcs \/ UploadOk) =>
          /\ Cardinality(DestinationBuffers) = IF Indexed THEN 2 ELSE 1
          /\ DestinationBuffers = BlockBuffers(mesh_block)
    /\ (upc \in StagedPcs \/ UploadOk) =>
          LET memory == memories[staging_block.memory]
              vertex == buffers[staging_block.vertex.buffer]
              source == asset.vertex \o asset.index
          IN  /\ memory.size = Len(source)
              /\ \A i \in 1..Len(source) : memory.bytes[i] = {source[i]}
              /\ vertex.memory = staging_block.memory /\ vertex.offset = 0
              /\ vertex.size = Len(asset.vertex)
              /\ (staging_block.index # <<>>) = Indexed
              /\ Indexed =>
                    LET index == buffers[staging_block.index[1].buffer]
                    IN  /\ index.memory = staging_block.memory
                        /\ index.offset = Len(asset.vertex)
                        /\ index.size = Len(asset.index)
                        /\ \E i \in Calls("map_memory") : \E j \in Calls("map_memory") :
                              /\ Calls("map_memory") = {i, j}
                              /\ i < j
                              /\ log[i].arg = 0
                              /\ log[j].arg = Len(asset.vertex)

\* C19 witness: an indexed upload with two bytes of vertex data whose index
\* bytes differ from its vertex bytes has returned Ok.
C19_Witness ==
    /\ UploadOk
    /\ Len(asset.vertex) = 2
    /\ Len(asset.index) = 2
    /\ asset.vertex # asset.index

\* C20: both sub-paths ask get_memory_type_index for the same property flags
\* (host-visible, host-coherent staging memory; device-local destination
\* memory) and differ only in the mask: the vertex requirement's bits, and-ed
\* with the index requirement's bits when there is index data.
C20_SymmetricMemoryRequests ==
    \A i \in Calls("get_memory_type_index") :
       LET q     == log[i].arg
           block == IF q.for = "staging" THEN staging_block ELSE mesh_block
           bits  == IF Indexed
                    THEN buffers[block.vertex.buffer].type_bits
                            \cap buffers[block.index[1].buffer].type_bits
                    ELSE buffers[block.vertex.buffer].type_bits
       IN  /\ q.flags = IF q.for = "staging" THEN {"HOST_VISIBLE", "HOST_COHERENT"}
                                              ELSE {"DEVICE_LOCAL"}
           /\ q.type_bits = bits

\* C21: when get_memory_type_index finds no memory type for a request,
\* allocate returns an error and no allocate_memory call follows the failed
\* selection.
C21_NoMemoryTypeIsCreationError ==
    \A i \in Calls("get_memory_type_index") :
       log[i].out = "None" =>
          /\ upload_result.status = "Err"
          /\ \A j \in Calls("allocate_memory") : j < i

\* The copy has been recorded into the one-shot command buffer.
CopyRecorded == Calls("copy_buf2buf") # {}

\* C22: the recorded command buffer holds one copy for the vertex data and
\* one more exactly when there is index data; each copy goes from the staging
\* buffer of its region to the destination buffer of that region, with the
\* source offset equal to the destination offset and the staged size.
C22_OneRegionPerStagedRange ==
    /\ ~CopyRecorded => copy_command = <<>>
    /\ CopyRecorded =>
          /\ Len(copy_command) = IF Indexed THEN 2 ELSE 1
          /\ copy_command[1].src = staging_block.vertex.buffer
          /\ copy_command[1].dst = mesh_block.vertex.buffer
          /\ copy_command[1].region.size = staging_block.vertex.size
          /\ copy_command[1].region.size = Len(asset.vertex)
          /\ Indexed =>
                /\ copy_command[2].src = staging_block.index[1].buffer
                /\ copy_command[2].dst = mesh_block.index[1].buffer
                /\ copy_command[2].region.size = staging_block.index[1].size
                /\ copy_command[2].region.size = Len(asset.index)
          /\ \A k \in DOMAIN copy_command :
                copy_command[k].region.src_offset = copy_command[k].region.dst_offset
    /\ \A batch \in transfer_queue : batch.commands = copy_command

\* C22 witness: the copy of an indexed asset was recorded, submitted and
\* executed, and allocate returned Ok.
C22_Witness ==
    /\ UploadOk
    /\ Indexed
    /\ Len(copy_command) = 2

\* C27: from the moment allocate_mesh has returned, every destination buffer
\* is bound to the destination memory: the vertex buffer at offset 0, the
\* index buffer at offset vertexSize.
C27_DestinationBound ==
    (upc \in MeshedPcs \/ UploadOk) =>
       /\ buffers[mesh_block.vertex.buffer].memory = mesh_block.memory
       /\ buffers[mesh_block.vertex.buffer].offset = 0
       /\ \A k \in DOMAIN mesh_block.index :
             /\ buffers[mesh_block.index[k].buffer].memory = mesh_block.memory
             /\ buffers[mesh_block.index[k].buffer].offset = mesh_block.vertex.size

\* C28: every recorded copy region lies inside its source buffer and inside
\* its destination buffer.
C28_RegionsInBounds ==
    \A k \in DOMAIN copy_command :
       LET cmd == copy_command[k]
       IN  /\ cmd.region.src_offset + cmd.region.size <= buffers[cmd.src].size
           /\ cmd.region.dst_offset + cmd.region.size <= buffers[cmd.dst].size

\* ------------------------------------------------ more claims about the loop
\* The fence of the current frame slot.
SlotFence == syncs.sync_fences[current_frame(frame_counter) + 1]

\* The pending batches that will signal `fence`.
PendingOn(fence) == {batch \in pending : batch.fence = fence}

\* The steps of render_frame, in program order.
RenderSteps == <<"wait_for_fences", "next_image", "reset_fences", "app_render_frame",
                 "present">>

\* render_frame is blocked in its fence wait.
Waiting == pc = "rf_wait"

\* The fence render_frame waits on is signaled, or one pending batch will
\* signal it.
WaitCanReturn ==
    Waiting =>
       /\ current_frame(frame_counter) + 1 \in DOMAIN syncs.sync_fences
       /\ SlotFence \in DOMAIN fence_state
       /\ \/ fence_state[SlotFence] /\ PendingOn(SlotFence) = {}
          \/ ~fence_state[SlotFence] /\ Cardinality(PendingOn(SlotFence)) = 1

\* The loop with a GPU that eventually retires every submitted batch and a
\* control thread that returns from a wait that can return.
LiveSpec == Spec /\ WF_vars(GpuRetire) /\ WF_vars(RenderWaitFence)

\* C25: whenever render_frame waits on the fence of the current slot, the
\* fence is signaled or exactly one pending submission will signal it, also
\* after iterations that ended in SwapchainRecreate; with a GPU that completes
\* every batch the wait therefore always eventually returns.
C25_WaitAlwaysReturns ==
    /\ []WaitCanReturn
    /\ (Waiting ~> ~Waiting)

\* C25 witness: after an aborted frame, render_frame waits on a fence that is
\* not signaled yet.
C25_Witness ==
    /\ Waiting
    /\ aborted > 0
    /\ ~fence_state[SlotFence]
    /\ Cardinality(PendingOn(SlotFence)) = 1

\* C26: within one render_frame call each step runs at most once and only
\* after the step before it returned Ok; the callback is entered with the
\* unsignaled fence of the current slot and the index just acquired and its
\* batch waits on the shared semaphore; present is called with the semaphore
\* the callback returned and with that same index.
C26_FixedStepOrder ==
    /\ \A k \in DOMAIN RenderSteps : Cardinality(Calls(RenderSteps[k])) <= 1
    /\ \A k \in 2..Len(RenderSteps) :
          \A i \in Calls(RenderSteps[k]) :
             \E j \in Calls(RenderSteps[k - 1]) : j < i /\ log[j].out = "Ok"
    /\ pc \in {"rf_render", "rf_present"} =>
          /\ fence_ready = SlotFence
          /\ \E a \in Calls("next_image") :
                log[a].out = "Ok" /\ log[a].arg = acquire_image_index
    /\ pc = "rf_render" => ~fence_state[fence_ready]
    /\ pc = "rf_present" =>
          /\ \E c \in Calls("app_render_frame") : log[c].arg = fence_ready
          /\ await_render = backend_res.await_rendering
          /\ \/ fence_state[fence_ready] /\ PendingOn(fence_ready) = {}
             \/ PendingOn(fence_ready) =
                   {SubmitCI(fence_ready, syncs.await_present, acquire_image_index)}
    /\ (Calls("present") # {} /\ Calls("tick_frame") = {}) =>
          \E a \in Calls("next_image") : \E q \in Calls("present") :
             /\ log[a].out = "Ok"
             /\ log[q].arg = log[a].arg
             /\ present_args = [wait |-> <<backend_res.await_rendering>>,
                                image_index |-> log[a].arg]

\* C26 witness: a frame was presented whose image index is not the index of
\* its frame slot.
C26_Witness ==
    /\ pc = "lp_tick"
    /\ \E q \in Calls("present") : log[q].out = "Ok"
    /\ present_args.image_index # current_frame(frame_counter)
    /\ present_args.wait = <<backend_res.await_rendering>>

\* C29: app.receive_input is called in an iteration only if the polling of
\* that iteration yielded Rendering.
C29_InputOnlyOnContinue ==
    \A i \in Calls("receive_input") :
       \E j \in Calls("poll_events") : j < i /\ log[j].out = "Rendering"

\* C30: during a session the number of fences in the pool, the modulus of the
\* frame counter and frame_in_flight() are equal.
C30_PoolSizedBySwapchain ==
    pc \notin {"new", "done"} =>
       /\ Len(syncs.sync_fences) = frame_counter.count
       /\ syncs.frame_count = frame_counter.count
       /\ frame_counter.count = swapchain.images

\* ------------------------------------------------- claims about shader files
\* C23: no operation swallows an error: when a read of the shader file fails,
\* load_spriv_bytes returns Err, and when it returns Ok the bytes are the
\* whole content of the file.
C23_NoSwallowedError ==
    shader_pc = "done" =>
       /\ shader_errors > 0 => shader_result.status = "Err"
       /\ shader_result.status = "Ok" => shader_result.bytes = shader_file.content

\* ---------------------------------------------------- claims about the pool
\* The primitives the pool holds: the live handles among its fields.
PoolHeld ==
    {h \in {pool.await_present} : h \in DOMAIN pool_sem_state}
    \cup {h \in FencesOf(pool) : h \in DOMAIN pool_fence_state}

\* This step is a call of SyncResource::reset.
ResetStep ==
    /\ Len(pool_log') = Len(pool_log) + 1
    /\ Last(pool_log').op = "syncs_reset"

\* What a call of SyncResource::reset does to the pool.
ResetRenewsPool ==
    /\ \A h \in PoolHeld :
          /\ DestroyCount(destroyed', h) = DestroyCount(destroyed, h) + 1
          /\ h \notin DOMAIN pool_sem_state'
          /\ h \notin DOMAIN pool_fence_state'
    /\ pool'.frame_count = pool.frame_count
    /\ Last(pool_log').out = "Ok" =>
          /\ pool'.await_present >= pool_next_handle
          /\ pool'.await_present \in DOMAIN pool_sem_state'
          /\ pool_sem_state'[pool'.await_present] = 0
          /\ Len(pool'.sync_fences) = pool.frame_count
          /\ \A i \in DOMAIN pool'.sync_fences :
                /\ pool'.sync_fences[i] >= pool_next_handle
                /\ pool'.sync_fences[i] # pool'.await_present
                /\ pool'.sync_fences[i] \in DOMAIN pool_fence_state'
                /\ pool_fence_state'[pool'.sync_fences[i]]
                /\ \A j \in DOMAIN pool'.sync_fences :
                      pool'.sync_fences[j] = pool'.sync_fences[i] => j = i

\* C24: a call of SyncResource::reset destroys every primitive the pool held,
\* each exactly once, leaves frame_count unchanged, and when it returns Ok the
\* pool holds one fresh semaphore and frame_count fresh fences, all signaled.
C24_ResetDestroysAndRenews == [][ResetStep => ResetRenewsPool]_vars

\* C24 witness: reset returned Ok on a pool of more than one fence right after
\* a frame had left one of them unsignaled; the old primitives were destroyed
\* once and every fence of the pool is signaled.
C24_Witness ==
    /\ Len(pool_log) >= 3
    /\ pool.frame_count > 1
    /\ Last(pool_log) = Ev("syncs_reset", 0, "Ok")
    /\ pool_log[Len(pool_log) - 1].op = "reset_fences"
    /\ \A h \in 1..(pool.frame_count + 1) : DestroyCount(destroyed, h) = 1
    /\ \A h \in FencesOf(pool) : pool_fence_state[h]

\* ------------------------------------------------- claims about submissions
\* C31: no command buffer of the application is in two batches that are
\* pending on the graphics queue at the same time.
C31_CommandBufferNotResubmitted ==
    \A b1 \in pending : \A b2 \in pending :
       b1.command = b2.command => b1 = b2

\* ---------------------------------------------- claims about upload errors
\* C32: when allocate returns Err, every buffer, memory, command pool and
\* fence created during the call has been destroyed and no block is returned.
C32_ErrorLeaksNothing ==
    (upc = "done" /\ upload_result.status = "Err") =>
       /\ \A h \in DOMAIN buffers : buffers[h].destroyed > 0
       /\ \A h \in DOMAIN memories : memories[h].destroyed > 0
       /\ \A h \in DOMAIN cmd_pools : cmd_pools[h].destroyed > 0
       /\ \A h \in DOMAIN copy_fences : copy_fences[h].destroyed > 0
       /\ upload_result.block = NoBlock

\* ------------------------------------------------ claims about the mapping
\* C34: a memory is never mapped while it is still mapped, and when allocate
\* has returned no memory is left mapped.
C34_MappedOnceAtATime ==
    \A h \in DOMAIN memories :
       /\ memories[h].mapped <= 1
       /\ upc = "done" => memories[h].mapped = 0

\* ------------------------------------------------ claims about every exit
\* C33: when launch has returned, with Ok or with Err, it has waited for the
\* device to go idle and then destroyed the sync pool and the Vulkan context,
\* each exactly once.
C33_EveryExitTearsDown ==
    pc = "done" =>
       /\ Cardinality(Calls("syncs_discard")) = 1
       /\ Cardinality(Calls("vulkan_discard")) = 1
       /\ \E w \in Calls("wait_idle") : \A d \in Calls("syncs_discard") :
             w < d /\ log[w].out = "Ok"
       /\ syncs.await_present \notin DOMAIN sem_state
       /\ PoolFences \cap DOMAIN fence_state = {}

\* ------------------------------------------------ claims about pool handles
\* C35: over every sequence of uses of the pool by a frame and of new, reset
\* and discard, no semaphore or fence handle is destroyed more than once and
\* the lookup sync_fences[current_frame] never misses.
C35_DestroyedOnceLookupInBounds ==
    /\ \A h \in DOMAIN destroyed : destroyed[h] <= 1
    /\ \A i \in DOMAIN pool_log : pool_log[i].out # "Panic"

\* C36: when SyncResource::new fails at its k-th creation it returns a
\* creation error, the pipeline keeps no new pool, and the k primitives it had
\* created before the failure have been destroyed.
C36_FailedNewLeavesNothing ==
    (Last(pool_log).op = "syncs_new" /\ Last(pool_log).out # "Ok") =>
       /\ Last(pool_log).out = "VkError::create"
       /\ \A h \in (pool_next_handle - Last(pool_log).arg) .. (pool_next_handle - 1) :
             /\ h \notin DOMAIN pool_sem_state
             /\ h \notin DOMAIN pool_fence_state
             /\ h # pool.await_present
             /\ h \notin FencesOf(pool)

====
